---- MODULE Spec2Model ----
(***************************************************************************)
(* A model of mailmcp: the credential store (utils/storage.ts), the OAuth  *)
(* token lifecycle and the mail operations of EmailService                 *)
(* (utils/email-service.ts) and the tool handlers that drive them          *)
(* (core/tools/email-query.tool.ts, core/tools/email-detail.tool.ts).      *)
(*                                                                         *)
(* Time is counted in minutes.  A token or a password is a natural number, *)
(* 0 standing for an absent (undefined or empty, hence falsy) value.       *)
(***************************************************************************)
EXTENDS Integers, Sequences, FiniteSets, TLC

VARIABLES
    now,             \* wall clock (new Date()), in minutes
    file,            \* content of ~/.mailmcp/storage.json, a sequence of tokens
    oauthConfigured, \* GOOGLE_CLIENT_ID and GOOGLE_CLIENT_SECRET are both set
    pc,              \* position of the tool invocation
    tool,            \* "query", "detail" or "send"
    args,            \* the arguments of the invocation
    account,         \* EmailService.account of the invocation
    fbFrom,          \* where fallbackRefreshOAuthToken was called from: "try" or "catch"
    persistFrom,     \* which strategy is saving its tokens: "remote" or "fallback"
    calls,           \* network calls made by the invocation, oldest first
    remoteOutcome,   \* what the remote refresh endpoint answered in this invocation
    result,          \* what the tool handler returned to its caller
    message,         \* the message performEmailFetch found for the uid
    body,            \* what getEmailTextContent returned
    entry,           \* snapshot taken when the handler has looked its account up
    pre,             \* snapshot taken when checkAndRefreshToken is entered
    post,            \* snapshot taken when checkAndRefreshToken returns
    sweep,           \* the startup sweep checkAndCleanExpiredTokens
    io,              \* one fs.writeFile of the store file and one readStorage beside it
    st,              \* store operations in progress, each between its read and its write
    mail,            \* one mail operation of an EmailService and its teardown
    txt,             \* a text handed to the normalizer and what came back
    mime,            \* a body resolved from the parts or the structure of a message
    login            \* the email-login tool, its login servers and a request to one of them

hvars == <<pc, tool, args, account, fbFrom, persistFrom, calls, remoteOutcome, result, message, body, entry, pre, post>>

vars == <<now, file, oauthConfigured, hvars, sweep, io, st, mail, txt, mime, login>>

----------------------------------------------------------------------------
(* Bounds of the model *)

StartTime == 60
MaxTicks == 2

(* Program constants, in minutes *)

RefreshWindow == 5
SweepAge == 55
DefaultExpiresIn == 60

----------------------------------------------------------------------------
(* EmailAccount records *)

NoExpiry == -1
NoAccount == [email |-> ""]
NoDefault == ""

GmailAddr == "g@gmail.com"
QQAddr == "q@qq.com"
GmailName == "Gee"
Gmail2Addr == "h@gmail.com"

Account(email, displayName, provider, password, accessToken, refreshToken, tokenExpiry, lastLogin, isActive) ==
    [email |-> email, displayName |-> displayName, provider |-> provider,
     password |-> password, accessToken |-> accessToken,
     refreshToken |-> refreshToken, tokenExpiry |-> tokenExpiry,
     lastLogin |-> lastLogin, isActive |-> isActive]

StorageData(accounts, defaultAccount, lastUpdated) ==
    [accounts |-> accounts, defaultAccount |-> defaultAccount, lastUpdated |-> lastUpdated,
     gmailAuths |-> <<>>]

createDefaultStorageData(t) == StorageData(<<>>, NoDefault, t)

\* the records the model starts from
GmailAccount(expiry, rt, active) ==
    Account(GmailAddr, GmailName, "Gmail", 0, 1, rt, expiry, 0, active)

QQAccount == Account(QQAddr, "", "QQ", 1, 0, 0, NoExpiry, 0, TRUE)

----------------------------------------------------------------------------
(* The store file.  JSON.stringify writes an opening token, one token per  *)
(* account, a token for the remaining fields and a closing token;          *)
(* JSON.parse accepts exactly the sequences of that shape.                 *)

Stringify(data) ==
    <<[t |-> "open"]>>
    \o [i \in 1..Len(data.accounts) |-> [t |-> "acct", v |-> data.accounts[i]]]
    \o <<[t |-> "meta", v |-> [defaultAccount |-> data.defaultAccount,
                               lastUpdated |-> data.lastUpdated,
                               gmailAuths |-> data.gmailAuths]]>>
    \o <<[t |-> "close"]>>

WellFormed(s) ==
    /\ Len(s) >= 3
    /\ s[1].t = "open"
    /\ s[Len(s)].t = "close"
    /\ s[Len(s) - 1].t = "meta"
    /\ \A i \in 2..(Len(s) - 2) : s[i].t = "acct"

Parse(s) ==
    [StorageData([i \in 1..(Len(s) - 3) |-> s[i + 1].v],
                 s[Len(s) - 1].v.defaultAccount,
                 s[Len(s) - 1].v.lastUpdated)
        EXCEPT !.gmailAuths = s[Len(s) - 1].v.gmailAuths]

\* readStorage: the data it returns
readStorage(f, t) ==
    IF WellFormed(f) THEN Parse(f) ELSE createDefaultStorageData(t)

\* readStorage: the file it leaves (an empty or unparsable file is replaced)
readStorageFile(f, t) ==
    IF WellFormed(f) THEN f ELSE Stringify(createDefaultStorageData(t))

\* writeStorage: the file it leaves
writeStorage(data, t) ==
    Stringify([data EXCEPT !.lastUpdated = t])

\* Array.prototype.findIndex on accounts by email; 0 stands for -1
findIndex(accounts, email) ==
    IF \E i \in 1..Len(accounts) : accounts[i].email = email
    THEN CHOOSE i \in 1..Len(accounts) :
            /\ accounts[i].email = email
            /\ \A j \in 1..(i - 1) : accounts[j].email # email
    ELSE 0

getAccount(data, key) ==
    LET hit(i) == data.accounts[i].email = key \/ data.accounts[i].displayName = key
    IN  IF \E i \in 1..Len(data.accounts) : hit(i)
        THEN data.accounts[CHOOSE i \in 1..Len(data.accounts) :
                              hit(i) /\ \A j \in 1..(i - 1) : ~hit(j)]
        ELSE NoAccount

getDefaultAccount(data) ==
    IF data.defaultAccount = NoDefault THEN NoAccount
    ELSE getAccount(data, data.defaultAccount)

validateAccount(data, key) ==
    LET acc == getAccount(data, key) IN acc # NoAccount /\ acc.isActive

checkTokenExpiry(data, key, t) ==
    LET acc == getAccount(data, key) IN
    IF acc = NoAccount \/ acc.provider # "Gmail" \/ acc.tokenExpiry = NoExpiry
    THEN [isExpired |-> FALSE, needsRefresh |-> FALSE]
    ELSE [isExpired |-> acc.tokenExpiry - t <= 0,
          needsRefresh |-> acc.tokenExpiry - t < RefreshWindow]

\* updateAccount as it would be if it stamped the stored record instead of
\* replacing it with the caller's
updateAccountDataStale(data, acc, t) ==
    [data EXCEPT !.accounts[findIndex(data.accounts, acc.email)] =
                     [@ EXCEPT !.lastLogin = t]]

\* updateAccount: the data it writes (the caller has found the index)
updateAccountData(data, acc, t) ==
    [data EXCEPT !.accounts[findIndex(data.accounts, acc.email)] =
                     [acc EXCEPT !.lastLogin = t]]

removeAccountData(data, email) ==
    LET idx == findIndex(data.accounts, email)
        rest == [i \in 1..(Len(data.accounts) - 1) |->
                    IF i < idx THEN data.accounts[i] ELSE data.accounts[i + 1]]
    IN  [data EXCEPT !.accounts = rest,
                     !.defaultAccount =
                         IF data.defaultAccount = email
                         THEN (IF Len(rest) > 0 THEN rest[1].email ELSE NoDefault)
                         ELSE data.defaultAccount]

----------------------------------------------------------------------------
(* Text.  A string is a sequence of characters; a character is a string of *)
(* length one, or the name of a character that has no printable form.      *)

SP == " "
TAB == "\t"
NL == "\n"
CR == "\r"
ZWSP == "u200B"
ZWNJ == "u200C"
ZWJ == "u200D"
BOM == "uFEFF"
CGJ == "u034F"

\* the regular expression class \s, which is also what String.trim removes
IsSpace(c) == c \in {SP, TAB, NL, CR, BOM}
\* where ^ and $ match under the m flag
IsLineTerm(c) == c \in {NL, CR}
IsBlank(c) == c \in {SP, TAB}

\* the last index of the longest run of characters satisfying P that starts at i;
\* i - 1 when s[i] does not satisfy P
RunEnd(s, i, P(_)) ==
    LET stop == {j \in i..Len(s) : ~P(s[j])}
    IN  IF stop = {} THEN Len(s)
        ELSE (CHOOSE j \in stop : \A k \in stop : j <= k) - 1

\* String.replace(/re/g, r): Match(s, i) is the last index of the match of re
\* that starts at i, or 0 when re does not match there
ReplaceAll(s, Match(_, _), r) ==
    LET starts == {j \in 1..Len(s) : Match(s, j) # 0}
        \* the text from i on, rewritten: up to the next match as it is
        out[i \in 1..(Len(s) + 1)] ==
            LET from == {j \in starts : j >= i}
                at == CHOOSE j \in from : \A k \in from : j <= k
            IN  IF from = {} THEN SubSeq(s, i, Len(s))
                ELSE SubSeq(s, i, at - 1) \o r \o out[Match(s, at) + 1]
    IN  IF s = <<>> THEN <<>> ELSE out[1]

HasAt(s, i, w) ==
    /\ i + Len(w) - 1 <= Len(s)
    /\ \A k \in 1..Len(w) : s[i + k - 1] = w[k]

\* https?:\/\/ at i: the index of its last character, or 0
SchemeEnd(s, i) ==
    IF HasAt(s, i, <<"h", "t", "t", "p", "s", ":", "/", "/">>) THEN i + 7
    ELSE IF HasAt(s, i, <<"h", "t", "t", "p", ":", "/", "/">>) THEN i + 6
    ELSE 0

AtLineStart(s, i) == i = 1 \/ IsLineTerm(s[i - 1])
AtLineEnd(s, j) == j = Len(s) \/ IsLineTerm(s[j + 1])

\* a normalizer that leaves bracketed addresses to the later passes
MatchBracketUrlNever(s, i) == 0

\* /\[https?:\/\/[^\]]+\]/
MatchBracketUrl(s, i) ==
    IF s[i] # "[" THEN 0
    ELSE LET k == SchemeEnd(s, i + 1)
             e == RunEnd(s, k + 1, LAMBDA c : c # "]")
         IN  IF k # 0 /\ e > k /\ e < Len(s) THEN e + 1 ELSE 0

\* /^https?:\/\/[^\s]+$/m
MatchUrlLine(s, i) ==
    LET k == SchemeEnd(s, i)
        e == RunEnd(s, k + 1, LAMBDA c : ~IsSpace(c))
    IN  IF AtLineStart(s, i) /\ k # 0 /\ e > k /\ AtLineEnd(s, e) THEN e ELSE 0

\* /https?:\/\/[^\s]+/
MatchUrl(s, i) ==
    LET k == SchemeEnd(s, i)
        e == RunEnd(s, k + 1, LAMBDA c : ~IsSpace(c))
    IN  IF k # 0 /\ e > k THEN e ELSE 0

\* /^\s+$/m: the longest run of white space from a line start to a line end
MatchBlankLine(s, i) ==
    LET e == RunEnd(s, i, IsSpace)
        ends == {j \in i..e : AtLineEnd(s, j)}
    IN  IF AtLineStart(s, i) /\ ends # {}
        THEN CHOOSE j \in ends : \A k \in ends : k <= j
        ELSE 0

\* /\n\s*\n\s*\n+/: from a newline to the last newline of the white space
\* that follows it, when that white space holds three newlines or more
MatchBlankLines(s, i) ==
    LET e == RunEnd(s, i, IsSpace)
        nls == {j \in i..e : s[j] = NL}
    IN  IF s[i] = NL /\ Cardinality(nls) >= 3
        THEN CHOOSE j \in nls : \A k \in nls : k <= j
        ELSE 0

\* a normalizer that leaves runs of spaces and tabs as they are
MatchBlanksNever(s, i) == 0

\* /[ \t]+/
MatchBlanks(s, i) ==
    LET e == RunEnd(s, i, IsBlank) IN IF e >= i THEN e ELSE 0

\* /\n[ \t]+/
MatchLeadingBlanks(s, i) ==
    LET e == RunEnd(s, i + 1, IsBlank) IN IF s[i] = NL /\ e > i THEN e ELSE 0

\* /[ \t]+\n/
MatchTrailingBlanks(s, i) ==
    LET e == RunEnd(s, i, IsBlank)
    IN  IF e >= i /\ e < Len(s) /\ s[e + 1] = NL THEN e + 1 ELSE 0

\* s without its leading and trailing characters that satisfy P
Strip(s, P(_)) ==
    LET keep == {j \in 1..Len(s) : ~P(s[j])}
    IN  IF keep = {} THEN <<>>
        ELSE SubSeq(s, CHOOSE j \in keep : \A k \in keep : j <= k,
                       CHOOSE j \in keep : \A k \in keep : k <= j)

trim(s) == Strip(s, IsSpace)

IsZeroWidth(c) == c \in {ZWSP, ZWNJ, ZWJ, BOM, CGJ}
IsVisible(c) == ~IsZeroWidth(c)
IsNewline(c) == c = NL

cleanEmailText(text) ==
    LET t0 == trim(text)
        t1 == ReplaceAll(t0, MatchBracketUrl, <<>>)
        t2 == ReplaceAll(t1, MatchUrlLine, <<>>)
        t3 == ReplaceAll(t2, MatchUrl, <<>>)
        t4 == SelectSeq(t3, IsVisible)
        t5 == ReplaceAll(t4, MatchBlankLine, <<>>)
        t6 == ReplaceAll(t5, MatchBlankLines, <<NL, NL>>)
        t7 == ReplaceAll(t6, MatchBlanks, <<SP>>)
        t8 == ReplaceAll(t7, MatchLeadingBlanks, <<NL>>)
        t9 == ReplaceAll(t8, MatchTrailingBlanks, <<NL>>)
        t10 == Strip(t9, IsNewline)
    IN  IF text = <<>> THEN <<>> ELSE trim(t10)

----------------------------------------------------------------------------
(* Plain text and HTML taken from the body parts of a message *)

UpperCase == <<"A", "B", "C", "D", "E", "F", "G", "H", "I", "J", "K", "L", "M",
               "N", "O", "P", "Q", "R", "S", "T", "U", "V", "W", "X", "Y", "Z">>
LowerCase == <<"a", "b", "c", "d", "e", "f", "g", "h", "i", "j", "k", "l", "m",
               "n", "o", "p", "q", "r", "s", "t", "u", "v", "w", "x", "y", "z">>
Digits == <<"0", "1", "2", "3", "4", "5", "6", "7", "8", "9">>

InSeq(c, w) == \E k \in 1..Len(w) : w[k] = c
IndexIn(c, w) == CHOOSE k \in 1..Len(w) : w[k] = c

\* the i flag: characters are compared in lower case
Fold(c) == IF InSeq(c, UpperCase) THEN LowerCase[IndexIn(c, UpperCase)] ELSE c

\* w, given in lower case, stands at i of s whatever the case
HasAtCI(s, i, w) ==
    /\ i + Len(w) - 1 <= Len(s)
    /\ \A k \in 1..Len(w) : Fold(s[i + k - 1]) = w[k]

IsAlnum(c) == InSeq(c, UpperCase) \/ InSeq(c, LowerCase) \/ InSeq(c, Digits)
NotGt(c) == c # ">"
NotQuote(c) == c \notin {"\"", "'"}
\* what . matches
NotLineTerm(c) == ~IsLineTerm(c)

\* String.replace(/re/g, fn): as ReplaceAll, with the replacement computed
\* from the place of the match
ReplaceAllWith(s, Match(_, _), Repl(_, _)) ==
    LET starts == {j \in 1..Len(s) : Match(s, j) # 0}
        out[i \in 1..(Len(s) + 1)] ==
            LET from == {j \in starts : j >= i}
                at == CHOOSE j \in from : \A k \in from : j <= k
            IN  IF from = {} THEN SubSeq(s, i, Len(s))
                ELSE SubSeq(s, i, at - 1) \o Repl(s, at) \o out[Match(s, at) + 1]
    IN  IF s = <<>> THEN <<>> ELSE out[1]

\* the first index at or after i where w stands, whatever the case; 0 if none
FindCI(s, i, w) ==
    LET hits == {j \in i..Len(s) : HasAtCI(s, j, w)}
    IN  IF hits = {} THEN 0 ELSE CHOOSE j \in hits : \A k \in hits : j <= k

\* /<prefix[^>]*>/i at i: the index of the closing >, or 0
MatchTag(s, i, prefix) ==
    LET e == RunEnd(s, i + Len(prefix), NotGt)
    IN  IF HasAtCI(s, i, prefix) /\ e < Len(s) THEN e + 1 ELSE 0

\* /<\/?name[^>]*>/i at i
MatchTagEither(s, i, name) ==
    IF MatchTag(s, i, <<"<">> \o name) # 0 THEN MatchTag(s, i, <<"<">> \o name)
    ELSE MatchTag(s, i, <<"<", "/">> \o name)

\* /<name\s*\/?>/i at i
MatchVoidTag(s, i, name) ==
    LET e == RunEnd(s, i + 1 + Len(name), IsSpace)
        f == IF e < Len(s) /\ s[e + 1] = "/" THEN e + 1 ELSE e
    IN  IF HasAtCI(s, i, <<"<">> \o name) /\ f < Len(s) /\ s[f + 1] = ">" THEN f + 1 ELSE 0

\* /--[A-Za-z0-9=_-]+/
MatchBoundary(s, i) ==
    LET e == RunEnd(s, i + 2, LAMBDA c : IsAlnum(c) \/ c \in {"=", "_", "-"})
    IN  IF HasAt(s, i, <<"-", "-">>) /\ e > i + 1 THEN e ELSE 0

\* /name:.*?\n/i at i, name given in lower case with its colon
MatchMimeHeader(s, i, name) ==
    LET e == RunEnd(s, i + Len(name), NotLineTerm)
    IN  IF HasAtCI(s, i, name) /\ e < Len(s) /\ s[e + 1] = NL THEN e + 1 ELSE 0

HdrContentType == <<"c", "o", "n", "t", "e", "n", "t", "-", "t", "y", "p", "e", ":">>
HdrTransferEncoding == <<"c", "o", "n", "t", "e", "n", "t", "-", "t", "r", "a", "n", "s", "f", "e", "r",
                         "-", "e", "n", "c", "o", "d", "i", "n", "g", ":">>
HdrDisposition == <<"c", "o", "n", "t", "e", "n", "t", "-", "d", "i", "s", "p", "o", "s", "i", "t",
                    "i", "o", "n", ":">>

\* /\n\s*\n\s*\n/ ends, as /\n\s*\n\s*\n+/ does, at the last newline of the
\* white space that follows the first
cleanPlainText(text) ==
    LET t1 == ReplaceAll(text, MatchBoundary, <<>>)
        t2 == ReplaceAll(t1, LAMBDA s, i : MatchMimeHeader(s, i, HdrContentType), <<>>)
        t3 == ReplaceAll(t2, LAMBDA s, i : MatchMimeHeader(s, i, HdrTransferEncoding), <<>>)
        t4 == ReplaceAll(t3, LAMBDA s, i : MatchMimeHeader(s, i, HdrDisposition), <<>>)
        t5 == ReplaceAll(t4, MatchBlankLines, <<NL, NL>>)
    IN  IF text = <<>> THEN <<>> ELSE trim(t5)

HtmlTagNames ==
    { <<"h", "t", "m", "l">>, <<"b", "o", "d", "y">>, <<"d", "i", "v">>, <<"p">>, <<"b", "r">>,
      <<"i", "m", "g">>, <<"a">>, <<"s", "p", "a", "n">>, <<"t", "a", "b", "l", "e">>,
      <<"t", "r">>, <<"t", "d">> }

\* /<\s*(html|body|div|p|br|img|a|span|table|tr|td)\s*[^>]*>/i matches at i
MatchHtmlTag(s, i) ==
    /\ s[i] = "<"
    /\ LET k == RunEnd(s, i + 1, IsSpace) + 1
       IN  \E name \in HtmlTagNames :
              /\ HasAtCI(s, k, name)
              /\ RunEnd(s, k + Len(name), NotGt) < Len(s)

isHtmlContent(content) ==
    content # <<>> /\ \E i \in 1..Len(content) : MatchHtmlTag(content, i)

BULLET == "u2022"
PictureWord == <<"u56FE", "u7247">>

blockElements ==
    << <<"p">>, <<"d", "i", "v">>, <<"h", "1">>, <<"h", "2">>, <<"h", "3">>, <<"h", "4">>,
       <<"h", "5">>, <<"h", "6">>, <<"l", "i">>, <<"d", "t">>, <<"d", "d">>,
       <<"b", "l", "o", "c", "k", "q", "u", "o", "t", "e">>, <<"p", "r", "e">>,
       <<"a", "d", "d", "r", "e", "s", "s">>, <<"a", "r", "t", "i", "c", "l", "e">>,
       <<"s", "e", "c", "t", "i", "o", "n">>, <<"h", "e", "a", "d", "e", "r">>,
       <<"f", "o", "o", "t", "e", "r">>, <<"m", "a", "i", "n">> >>

\* one round of the loop over blockElements: the end tag, then the start tag
BlockPass(text, tag) ==
    LET closed == ReplaceAll(text, LAMBDA s, i : MatchTag(s, i, <<"<", "/">> \o tag), <<NL, NL>>)
    IN  ReplaceAll(closed, LAMBDA s, i : MatchTag(s, i, <<"<">> \o tag),
                   IF tag = <<"l", "i">> THEN <<NL, BULLET, SP>> ELSE <<NL>>)

RECURSIVE BlockPassesFrom(_, _)

\* the rounds from the k-th block element on; a text without < holds no tag
\* and no round changes it
BlockPassesFrom(text, k) ==
    IF k > Len(blockElements) \/ ~InSeq("<", text) THEN text
    ELSE BlockPassesFrom(BlockPass(text, blockElements[k]), k + 1)

BlockPasses(text) == BlockPassesFrom(text, 1)

\* attr\s*=\s*["']([^"']*)["'][^>]*> read from h: whether it matches, the
\* captured value and the index of the closing >
AttrFrom(s, h, attr) ==
    LET e1 == RunEnd(s, h + Len(attr), IsSpace)
        e2 == RunEnd(s, e1 + 2, IsSpace)
        e3 == RunEnd(s, e2 + 2, NotQuote)
        e4 == RunEnd(s, e3 + 2, NotGt)
    IN  IF /\ HasAtCI(s, h, attr)
           /\ e1 < Len(s) /\ s[e1 + 1] = "="
           /\ e2 < Len(s) /\ ~NotQuote(s[e2 + 1])
           /\ e3 < Len(s)
           /\ e4 < Len(s)
        THEN [ok |-> TRUE, value |-> SubSeq(s, e2 + 2, e3), close |-> e4 + 1]
        ELSE [ok |-> FALSE, value |-> <<>>, close |-> 0]

\* where [^>]* can hand over to the attribute name: the places after <tag that
\* no > precedes
AttrStarts(s, i, tag) == (i + Len(tag))..(RunEnd(s, i + Len(tag), NotGt) + 1)

Last(S) == CHOOSE j \in S : \A k \in S : k <= j

AnchorEndTag == <<"<", "/", "a", ">">>

\* (.*?)<\/a> read from c: the index where the first </a> stands with no line
\* terminator before it, or 0
AnchorTextEnd(s, c) ==
    LET f == FindCI(s, c, AnchorEndTag)
    IN  IF f # 0 /\ \A k \in c..(f - 1) : NotLineTerm(s[k]) THEN f ELSE 0

\* /<a[^>]*href\s*=\s*["']([^"']*)["'][^>]*>(.*?)<\/a>/i at i: [^>]* is greedy, so
\* the last href that lets the rest match is the one taken
AnchorHrefs(s, i) ==
    {h \in AttrStarts(s, i, <<"<", "a">>) :
        /\ AttrFrom(s, h, <<"h", "r", "e", "f">>).ok
        /\ AnchorTextEnd(s, AttrFrom(s, h, <<"h", "r", "e", "f">>).close + 1) # 0}

MatchAnchor(s, i) ==
    IF HasAtCI(s, i, <<"<", "a">>) /\ AnchorHrefs(s, i) # {}
    THEN AnchorTextEnd(s, AttrFrom(s, Last(AnchorHrefs(s, i)), <<"h", "r", "e", "f">>).close + 1) + 3
    ELSE 0

\* '$2 ($1)'
AnchorText(s, i) ==
    LET a == AttrFrom(s, Last(AnchorHrefs(s, i)), <<"h", "r", "e", "f">>)
    IN  SubSeq(s, a.close + 1, AnchorTextEnd(s, a.close + 1) - 1)
            \o <<SP, "(">> \o a.value \o <<")">>

\* /<img[^>]*alt\s*=\s*["']([^"']*)["'][^>]*>/i at i
ImgAlts(s, i) ==
    {h \in AttrStarts(s, i, <<"<", "i", "m", "g">>) : AttrFrom(s, h, <<"a", "l", "t">>).ok}

MatchImgAlt(s, i) ==
    IF HasAtCI(s, i, <<"<", "i", "m", "g">>) /\ ImgAlts(s, i) # {}
    THEN AttrFrom(s, Last(ImgAlts(s, i)), <<"a", "l", "t">>).close
    ELSE 0

\* '[图片: $1]'
ImgAltText(s, i) ==
    <<"[">> \o PictureWord \o <<":", SP>>
        \o AttrFrom(s, Last(ImgAlts(s, i)), <<"a", "l", "t">>).value \o <<"]">>

\* /<name[^>]*>[\s\S]*?<\/name>/i at i
MatchElement(s, i, name) ==
    LET c == MatchTag(s, i, <<"<">> \o name)
        f == FindCI(s, c + 1, <<"<", "/">> \o name \o <<">">>)
    IN  IF c # 0 /\ f # 0 THEN f + Len(name) + 2 ELSE 0

\* /<[^>]*>/
MatchAnyTag(s, i) ==
    IF s[i] = "<" /\ RunEnd(s, i + 1, NotGt) < Len(s) THEN RunEnd(s, i + 1, NotGt) + 1 ELSE 0

\* /\n{3,}/
MatchNewlines(s, i) ==
    LET e == RunEnd(s, i, IsNewline) IN IF e >= i + 2 THEN e ELSE 0

\* the named entities, in the order of the table
entities ==
    << << <<"&", "n", "b", "s", "p", ";">>, <<SP>> >>,
       << <<"&", "a", "m", "p", ";">>, <<"&">> >>,
       << <<"&", "l", "t", ";">>, <<"<">> >>,
       << <<"&", "g", "t", ";">>, <<">">> >>,
       << <<"&", "q", "u", "o", "t", ";">>, <<"\"">> >>,
       << <<"&", "#", "3", "9", ";">>, <<"'">> >>,
       << <<"&", "a", "p", "o", "s", ";">>, <<"'">> >>,
       << <<"&", "c", "o", "p", "y", ";">>, <<"u00A9">> >>,
       << <<"&", "r", "e", "g", ";">>, <<"u00AE">> >>,
       << <<"&", "t", "r", "a", "d", "e", ";">>, <<"u2122">> >>,
       << <<"&", "h", "e", "l", "l", "i", "p", ";">>, <<".", ".", ".">> >>,
       << <<"&", "m", "d", "a", "s", "h", ";">>, <<"u2014">> >>,
       << <<"&", "n", "d", "a", "s", "h", ";">>, <<"u2013">> >>,
       << <<"&", "l", "s", "q", "u", "o", ";">>, <<"u2018">> >>,
       << <<"&", "r", "s", "q", "u", "o", ";">>, <<"u2019">> >>,
       << <<"&", "l", "d", "q", "u", "o", ";">>, <<"u201C">> >>,
       << <<"&", "r", "d", "q", "u", "o", ";">>, <<"u201D">> >>,
       << <<"&", "b", "u", "l", "l", ";">>, <<BULLET>> >>,
       << <<"&", "e", "u", "r", "o", ";">>, <<"u20AC">> >>,
       << <<"&", "p", "o", "u", "n", "d", ";">>, <<"u00A3">> >>,
       << <<"&", "y", "e", "n", ";">>, <<"u00A5">> >> >>

\* new RegExp(entity, 'gi') at i
MatchEntity(s, i, entity) == IF HasAtCI(s, i, entity) THEN i + Len(entity) - 1 ELSE 0

RECURSIVE NamedEntityPassesFrom(_, _)

\* the rounds from the k-th entity of the table on; a text without & holds no
\* entity and no round changes it
NamedEntityPassesFrom(text, k) ==
    IF k > Len(entities) \/ ~InSeq("&", text) THEN text
    ELSE NamedEntityPassesFrom(
             ReplaceAll(text, LAMBDA s, i : MatchEntity(s, i, entities[k][1]), entities[k][2]),
             k + 1)

NamedEntityPasses(text) == NamedEntityPassesFrom(text, 1)

\* the characters of the codes 32 to 126
Printable ==
    <<" ", "!", "\"", "#", "$", "%", "&", "'", "(", ")", "*", "+", ",", "-", ".", "/",
      "0", "1", "2", "3", "4", "5", "6", "7", "8", "9", ":", ";", "<", "=", ">", "?", "@">>
        \o UpperCase \o <<"[", "\\", "]", "^", "_", "u0060">> \o LowerCase \o <<"{", "|", "}", "~">>

CodeUnits == 65536

\* String.fromCharCode: the code is taken modulo 2^16
fromCharCode(code) ==
    LET c == code % CodeUnits
    IN  IF c \in 32..126 THEN Printable[c - 31]
        ELSE IF c = 10 THEN NL
        ELSE IF c = 9 THEN TAB
        ELSE IF c = 13 THEN CR
        ELSE "u" \o ToString(c)

HexDigits == Digits \o <<"a", "b", "c", "d", "e", "f">>
IsDigit(c) == InSeq(c, Digits)
IsHexDigit(c) == InSeq(Fold(c), HexDigits)

\* parseInt(digits, radix), kept modulo 2^16 as fromCharCode takes it
parseInt(digits, radix) ==
    LET v[k \in 0..Len(digits)] ==
            IF k = 0 THEN 0
            ELSE (v[k - 1] * radix + IndexIn(Fold(digits[k]), HexDigits) - 1) % CodeUnits
    IN  v[Len(digits)]

\* /&#(\d+);/
MatchDecimalEntity(s, i) ==
    LET e == RunEnd(s, i + 2, IsDigit)
    IN  IF HasAt(s, i, <<"&", "#">>) /\ e > i + 1 /\ e < Len(s) /\ s[e + 1] = ";"
        THEN e + 1 ELSE 0

DecimalEntityChar(s, i) ==
    <<fromCharCode(parseInt(SubSeq(s, i + 2, MatchDecimalEntity(s, i) - 1), 10))>>

\* /&#x([0-9A-Fa-f]+);/
MatchHexEntity(s, i) ==
    LET e == RunEnd(s, i + 3, IsHexDigit)
    IN  IF HasAt(s, i, <<"&", "#", "x">>) /\ e > i + 2 /\ e < Len(s) /\ s[e + 1] = ";"
        THEN e + 1 ELSE 0

HexEntityChar(s, i) ==
    <<fromCharCode(parseInt(SubSeq(s, i + 3, MatchHexEntity(s, i) - 1), 16))>>

decodeHtmlEntities(text) ==
    LET named == NamedEntityPasses(text)
        decimal == ReplaceAllWith(named, MatchDecimalEntity, DecimalEntityChar)
    IN  ReplaceAllWith(decimal, MatchHexEntity, HexEntityChar)

\* the k-th statement of stripHtmlTags that rewrites the text
stripPass(text, k) ==
    CASE k = 1 -> BlockPasses(text)
      [] k = 2 -> ReplaceAll(text, LAMBDA s, i : MatchVoidTag(s, i, <<"b", "r">>), <<NL>>)
      [] k = 3 -> ReplaceAll(text, LAMBDA s, i : MatchVoidTag(s, i, <<"h", "r">>), <<NL, "-", "-", "-", NL>>)
      [] k = 4 -> ReplaceAll(text, LAMBDA s, i : MatchEntity(s, i, <<"<", "/", "t", "r", ">">>), <<NL>>)
      [] k = 5 -> ReplaceAll(text, LAMBDA s, i : MatchEntity(s, i, <<"<", "/", "t", "d", ">">>), <<TAB>>)
      [] k = 6 -> ReplaceAll(text, LAMBDA s, i : MatchEntity(s, i, <<"<", "/", "t", "h", ">">>), <<TAB>>)
      [] k = 7 -> ReplaceAll(text, LAMBDA s, i : IF MatchTag(s, i, <<"<", "t", "d">>) # 0
              THEN MatchTag(s, i, <<"<", "t", "d">>)
              ELSE MatchTag(s, i, <<"<", "t", "h">>), <<>>)
      [] k = 8 -> ReplaceAll(text, LAMBDA s, i : MatchTagEither(s, i, <<"t", "a", "b", "l", "e">>), <<NL>>)
      [] k = 9 -> ReplaceAll(text, LAMBDA s, i : MatchTagEither(s, i, <<"t", "b", "o", "d", "y">>), <<>>)
      [] k = 10 -> ReplaceAll(text, LAMBDA s, i : MatchTagEither(s, i, <<"t", "h", "e", "a", "d">>), <<>>)
      [] k = 11 -> ReplaceAll(text, LAMBDA s, i : MatchTag(s, i, <<"<", "t", "r">>), <<>>)
      [] k = 12 -> ReplaceAllWith(text, MatchAnchor, AnchorText)
      [] k = 13 -> ReplaceAllWith(text, MatchImgAlt, ImgAltText)
      [] k = 14 -> ReplaceAll(text, LAMBDA s, i : MatchTag(s, i, <<"<", "i", "m", "g">>),
              <<"[">> \o PictureWord \o <<"]">>)
      [] k = 15 -> ReplaceAll(text, LAMBDA s, i : MatchElement(s, i, <<"s", "c", "r", "i", "p", "t">>), <<>>)
      [] k = 16 -> ReplaceAll(text, LAMBDA s, i : MatchElement(s, i, <<"s", "t", "y", "l", "e">>), <<>>)
      [] k = 17 -> ReplaceAll(text, MatchAnyTag, <<>>)
      [] k = 18 -> decodeHtmlEntities(text)
      [] k = 19 -> ReplaceAll(text, MatchBlanks, <<SP>>)
      [] k = 20 -> ReplaceAll(text, MatchLeadingBlanks, <<NL>>)
      [] k = 21 -> ReplaceAll(text, MatchTrailingBlanks, <<NL>>)
      [] k = 22 -> ReplaceAll(text, MatchNewlines, <<NL, NL>>)

StripPasses == 1..22

RECURSIVE stripPassesFrom(_, _)

\* the statements from the k-th on; no statement changes an empty text
stripPassesFrom(text, k) ==
    IF k \notin StripPasses \/ text = <<>> THEN text
    ELSE stripPassesFrom(stripPass(text, k), k + 1)

stripHtmlTags(html) == trim(stripPassesFrom(html, 1))

----------------------------------------------------------------------------
(* Error messages.  The handlers classify an error by String.includes, so  *)
(* a message is modelled by the set of the searched substrings it contains.*)

\* 'OAuth token expired and refresh failed. Please re-authenticate.'
MsgTokenExpired == {"OAuth token", "OAuth", "token"}

\* 'Operation timed out after 30000ms'
MsgOperationTimedOut == {}

\* outcomes of a remote call that are not error messages
Ok == {"ok"}
Empty == {"empty"}
TimedOut == {"timed out"}

\* errors raised by imapflow: rejected login, unreachable host, socket timeout
ImapErrors == {{"Invalid credentials"}, {}, {"timeout"}}

\* errors raised by nodemailer: rejected login, rejected bearer token, unreachable host
SmtpErrors == {{"Invalid login"}, {"token"}, {"connection"}}

\* connectImap's catch: 'ImapFlow connection failed for <email>: <message><hint>'
connectImapError(acc, msg) ==
    {"connection"} \cup msg \cup
    (IF ("Invalid credentials" \in msg \/ "authentication" \in msg) /\ acc.provider = "Gmail"
     THEN {"OAuth token", "OAuth", "token"} ELSE {})

\* sendEmail's catch
sendEmailError(msg) ==
    IF "OAuth" \in msg \/ "token" \in msg THEN msg
    ELSE IF "Invalid login" \in msg THEN msg \cup {"Invalid credentials"}
    ELSE msg

\* the catch blocks of the three tool handlers
handlerCatch(tl, msg) ==
    IF "Invalid credentials" \in msg \/ "authentication" \in msg THEN "AuthFailed"
    ELSE IF "OAuth token" \in msg THEN "AuthExpired"
    ELSE IF \/ "connection" \in msg
            \/ "timeout" \in msg
            \/ (tl = "send" /\ "SMTP" \in msg) THEN "ConnectionFailed"
    ELSE "Error"

\* the result the invocation ends with when the service throws msg
thrown(tl, msg) ==
    handlerCatch(tl, IF tl = "send" THEN sendEmailError(msg) ELSE msg)

----------------------------------------------------------------------------
(* The tool invocation: email-query, email-detail or email-send *)

Tools == {"query", "detail", "send"}
NoArg == ""
NoArgs == [from |-> NoArg, content |-> FALSE]

\* text || html of an email-send request; the other tools take no content
ContentArgs(tl) == IF tl = "send" THEN BOOLEAN ELSE {FALSE}
AccountArgs == {GmailAddr, GmailName, QQAddr, NoArg}

NoSnap == [taken |-> FALSE, ok |-> FALSE, account |-> NoAccount, file |-> <<>>, now |-> 0]
Snap(ok, acc, f, t) == [taken |-> TRUE, ok |-> ok, account |-> acc, file |-> f, now |-> t]

NoBody == [from |-> "unset", text |-> <<>>]

IsOAuth(acc) == acc.provider = "Gmail" /\ acc.accessToken # 0

afterToken(tl) ==
    CASE tl = "query" -> "connect"
      [] tl = "detail" -> "fetch"
      [] tl = "send" -> "smtp"

\* a send handler that accepts a request without content
contentMissingNever(tl, hasContent) == FALSE

\* EmailSendTool.handler: if (!text && !html)
contentMissing(tl, hasContent) == tl = "send" /\ ~hasContent

\* the handler up to the creation of the EmailService
HandlerStart(tl, arg, hasContent) ==
    /\ pc = "idle"
    /\ tool' = tl
    /\ args' = [from |-> arg, content |-> hasContent]
    /\ LET data == readStorage(file, now)
           acc == IF arg # NoArg THEN getAccount(data, arg) ELSE getDefaultAccount(data)
           early ==
               IF contentMissing(tl, hasContent) THEN "ValidationError"
               ELSE IF arg # NoArg /\ ~validateAccount(data, arg) THEN "NotFoundOrInactive"
               ELSE IF arg = NoArg /\ acc = NoAccount THEN "NoDefault"
               ELSE IF checkTokenExpiry(data, IF arg # NoArg THEN arg ELSE acc.email, now).isExpired
                    THEN "TokenExpired"
               ELSE "none"
       IN  /\ file' = IF contentMissing(tl, hasContent) THEN file ELSE readStorageFile(file, now)
           /\ result' = early
           /\ pc' = IF early = "none" THEN "token" ELSE "done"
           /\ account' = IF early = "none" THEN acc ELSE NoAccount
           /\ entry' = IF early = "ValidationError" THEN entry ELSE Snap(early = "none", acc, file', now)
    /\ UNCHANGED <<mime, txt, mail, st, io, sweep, now, oauthConfigured, login, fbFrom, persistFrom, calls, remoteOutcome, message, body, pre, post>>

\* expiresSoon as it would be with the operands of the subtraction swapped
expiresSoonSwapped(acc, t) == t - acc.tokenExpiry < RefreshWindow

\* checkAndRefreshToken: the token expires in less than 5 minutes
expiresSoon(acc, t) == acc.tokenExpiry - t < RefreshWindow

\* the guard of connectImap, getEmailTextContent and createTransporter together
\* with checkAndRefreshToken up to its first network call
CheckToken ==
    /\ pc = "token"
    /\ pre' = Snap(TRUE, account, file, now)
    /\ IF ~IsOAuth(account) \/ account.tokenExpiry = NoExpiry
          \/ ~expiresSoon(account, now)
       THEN /\ pc' = afterToken(tool)
            /\ post' = Snap(TRUE, account, file, now)
            /\ result' = result
       ELSE IF account.refreshToken # 0
       THEN /\ pc' = "remote"
            /\ post' = post
            /\ result' = result
       ELSE /\ pc' = "done"
            /\ post' = Snap(FALSE, account, file, now)
            /\ result' = thrown(tool, MsgTokenExpired)
    /\ UNCHANGED <<mime, txt, mail, st, io, sweep, now, file, oauthConfigured, login, tool, args, account, fbFrom, persistFrom, calls, remoteOutcome, message, body, entry>>

\* TokenCheckFails as it would be if the caller ignored the returned false
TokenCheckIgnored ==
    /\ pc' = afterToken(tool)
    /\ post' = Snap(FALSE, account, file', now)
    /\ result' = result

\* checkAndRefreshToken returns false: the caller throws MsgTokenExpired
TokenCheckFails ==
    /\ pc' = "done"
    /\ post' = Snap(FALSE, account, file', now)
    /\ result' = thrown(tool, MsgTokenExpired)

\* fallbackRefreshOAuthToken throws: a call made inside refreshOAuthToken's try
\* block lands in its catch block, which calls the fallback again
FallbackThrows ==
    IF fbFrom = "try"
    THEN /\ pc' = "fallback"
         /\ fbFrom' = "catch"
         /\ UNCHANGED <<post, result>>
    ELSE /\ fbFrom' = fbFrom
         /\ TokenCheckFails

RemoteOutcomes == {"unreachable", "http_error", "bad_json", "not_success", "success"}
DirectOutcomes == {"unreachable", "http_error", "bad_json", "oauth_error", "success"}

\* lifetimes, in minutes, of the tokens the refresh endpoints hand out
Lifetimes == {RefreshWindow, DefaultExpiresIn}

\* tokens handed out by the refresh endpoints
RemoteAccessToken == 2
DirectAccessToken == 3
NewRefreshToken == 4

\* refreshOAuthToken: the POST to GMAIL_TOKEN_REFRESH_ENDPOINT and what follows
\* it up to the next await.  life: expires_at - now; rt: data.refresh_token
RemoteRefresh(o, life, rt) ==
    /\ pc = "remote"
    /\ calls' = Append(calls, "remote")
    /\ remoteOutcome' = o
    /\ CASE o \in {"unreachable", "bad_json"} ->
              /\ pc' = "fallback" /\ fbFrom' = "catch"
              /\ UNCHANGED <<account, persistFrom>>
         [] o \in {"http_error", "not_success"} ->
              /\ pc' = "fallback" /\ fbFrom' = "try"
              /\ UNCHANGED <<account, persistFrom>>
         [] o = "success" ->
              /\ account' = [account EXCEPT
                                !.accessToken = RemoteAccessToken,
                                !.tokenExpiry = now + life,
                                !.lastLogin = now,
                                !.refreshToken = IF rt # 0 THEN rt ELSE @]
              /\ pc' = "persist" /\ persistFrom' = "remote"
              /\ fbFrom' = fbFrom
    /\ UNCHANGED <<mime, txt, mail, st, io, sweep, now, file, oauthConfigured, login, tool, args, result, message, body, entry, pre, post>>

\* directExpiry as it would be if the lifetime were not added to the clock
directExpiryNoBase(t, expires_in) ==
    IF expires_in # 0 THEN expires_in ELSE DefaultExpiresIn

\* the expiry fallbackRefreshOAuthToken computes from data.expires_in
directExpiry(t, expires_in) ==
    t + (IF expires_in # 0 THEN expires_in ELSE DefaultExpiresIn)

\* fallbackRefreshOAuthToken: the POST to oauth2.googleapis.com/token and what
\* follows it up to the next await
DirectRefresh(o, expires_in, rt) ==
    /\ pc = "fallback"
    /\ IF account.refreshToken = 0 \/ ~oauthConfigured
       THEN /\ UNCHANGED <<calls, account, persistFrom, file>>
            /\ FallbackThrows
       ELSE /\ calls' = Append(calls, "direct")
            /\ IF o = "success"
               THEN /\ account' = [account EXCEPT
                                      !.accessToken = DirectAccessToken,
                                      !.tokenExpiry = directExpiry(now, expires_in),
                                      !.lastLogin = now,
                                      !.refreshToken = IF rt # 0 THEN rt ELSE @]
                    /\ pc' = "persist" /\ persistFrom' = "fallback"
                    /\ UNCHANGED <<fbFrom, post, result, file>>
               ELSE /\ UNCHANGED <<account, persistFrom, file>>
                    /\ FallbackThrows
    /\ UNCHANGED <<mime, txt, mail, st, io, sweep, now, oauthConfigured, login, tool, args, remoteOutcome, message, body, entry, pre>>

\* EmailStorage.updateAccount(this.account) and the return of the refresh
Persist ==
    /\ pc = "persist"
    /\ LET data == readStorage(file, now) IN
       IF findIndex(data.accounts, account.email) = 0
       THEN /\ file' = readStorageFile(file, now)
            /\ IF persistFrom = "remote"
               THEN /\ pc' = "fallback" /\ fbFrom' = "catch"
                    /\ UNCHANGED <<post, result>>
               ELSE FallbackThrows
       ELSE /\ file' = writeStorage(updateAccountData(data, account, now), now)
            /\ pc' = afterToken(tool)
            /\ post' = Snap(TRUE, account, file', now)
            /\ UNCHANGED <<fbFrom, result>>
    /\ UNCHANGED <<mime, txt, mail, st, io, sweep, now, oauthConfigured, login, tool, args, account, persistFrom, calls, remoteOutcome, message, body, entry, pre>>

----------------------------------------------------------------------------
(* The mail operations behind the token check *)

\* getEmails -> openBox -> connectImap: new ImapFlow(config).connect()
ConnectImap(o) ==
    /\ pc = "connect"
    /\ calls' = Append(calls, "imap")
    /\ IF o = Ok
       THEN pc' = "list" /\ result' = result
       ELSE pc' = "done" /\ result' = thrown(tool, connectImapError(account, o))
    /\ UNCHANGED <<mime, txt, mail, st, io, sweep, now, file, oauthConfigured, login, tool, args, account, fbFrom, persistFrom, remoteOutcome, message, body, entry, pre, post>>

\* getEmails behind the mailbox lock, and the handler's answer
GetEmails(o) ==
    /\ pc = "list"
    /\ pc' = "done"
    /\ result' = CASE o = Empty -> "NoEmails"
                   [] o = Ok -> "ok"
                   [] OTHER -> thrown(tool, o)
    /\ UNCHANGED <<mime, txt, mail, st, io, sweep, now, file, oauthConfigured, login, tool, args, account, fbFrom, persistFrom, calls, remoteOutcome, message, body, entry, pre, post>>

\* sendEmail: transporter.sendMail(mailOptions), and the handler's answer
SendMail(o) ==
    /\ pc = "smtp"
    /\ calls' = Append(calls, "smtp")
    /\ pc' = "done"
    /\ result' = IF o = Ok THEN "ok" ELSE thrown(tool, o)
    /\ UNCHANGED <<mime, txt, mail, st, io, sweep, now, file, oauthConfigured, login, tool, args, account, fbFrom, persistFrom, remoteOutcome, message, body, entry, pre, post>>

----------------------------------------------------------------------------
(* What else happens while an invocation is in progress.  An invocation   *)
(* reads the clock and the store only up to the end of its token check, so *)
(* the clock and the store are let change only until then.                 *)

InTokenCheck == pc \in {"token", "remote", "fallback", "persist"}

Tick ==
    /\ InTokenCheck
    /\ now < StartTime + MaxTicks
    /\ now' = now + 1
    /\ UNCHANGED <<mime, txt, mail, st, io, sweep, file, oauthConfigured, login, hvars>>

\* the login server's DELETE /accounts/:email
RemoveAccount(email) ==
    /\ InTokenCheck
    /\ LET data == readStorage(file, now) IN
       /\ findIndex(data.accounts, email) # 0
       /\ file' = writeStorage(removeAccountData(data, email), now)
    /\ UNCHANGED <<mime, txt, mail, st, io, sweep, now, oauthConfigured, login, hvars>>

----------------------------------------------------------------------------
(* Messages of the mailbox and the resolution of their text *)

Absent == <<"absent">>

\* a raw source with its text/plain part and its text/html part; an HTML
\* part is a sequence of tags and characters
Message(plain, html) == [plain |-> plain, html |-> html]
NoMessage == [plain |-> <<"none">>, html |-> <<"none">>]

HtmlAB == <<"<p>", "A", "</p>", "<p>", "B", "</p>">>

\* the opening tag of a link and the address it carries
AnchorOpen == "<a href='http://ad.example/x'>"
AdUrl == <<"h", "t", "t", "p", ":", "/", "/", "a", "d", ".", "e", "x", "a",
           "m", "p", "l", "e", "/", "x">>
SpecialOffer == <<"S", "p", "e", "c", "i", "a", "l", SP, "o", "f", "f", "e", "r", "!">>
ClickHere == <<"C", "l", "i", "c", "k", SP, "h", "e", "r", "e">>

\* <div>Special offer! <a href='http://ad.example/x'>Click here</a></div>
AdHtml == <<"<div>">> \o SpecialOffer \o <<SP, AnchorOpen>> \o ClickHere \o <<"</a>", "</div>">>
AdMessage == Message(Absent, AdHtml)

Mailbox ==
    { Message(<<"H", "i", NL, NL, "y", "o">>, HtmlAB),
      Message(<<>>, HtmlAB),
      Message(<<SP, NL>>, HtmlAB),
      Message(Absent, HtmlAB),
      AdMessage,
      Message(<<"s", "e", "e", SP, "h", "t", "t", "p", ":", "/", "/", "x", SP, SP, "y">>, Absent),
      Message(Absent, Absent) }

\* mailparser's simpleParser: the text and html of the parsed mail, empty
\* (falsy) for a part the source does not have
simpleParser(m) ==
    [text |-> IF m.plain = Absent THEN <<>> ELSE m.plain,
     html |-> IF m.html = Absent THEN <<>> ELSE m.html]

IsTag(c) == Len(c) > 1 /\ SubSeq(c, 1, 1) = "<"

\* the href attribute of an opening tag
href(tag) == IF tag = AnchorOpen THEN AdUrl ELSE <<>>

\* html-to-text: tags are dropped, a paragraph ends with a blank line, and
\* a link is its text followed by its address in square brackets, unless
\* the address is the text (hideLinkHrefIfSameAsText)
htmlToText(h) ==
    LET opened(i) == {j \in 1..(i - 1) : href(h[j]) # <<>>}
        open(i) == CHOOSE j \in opened(i) : \A k \in opened(i) : k <= j
        link(i) == IF opened(i) = {} \/ href(h[open(i)]) = SubSeq(h, open(i) + 1, i - 1)
                   THEN <<>>
                   ELSE <<SP, "[">> \o href(h[open(i)]) \o <<"]">>
        out[i \in 1..(Len(h) + 1)] ==
            IF i > Len(h) THEN <<>>
            ELSE IF h[i] = "</p>" THEN <<NL, NL>> \o out[i + 1]
            ELSE IF h[i] = "</a>" THEN link(i) \o out[i + 1]
            ELSE IF h[i] \in {"<p>", "<div>", "</div>"} \/ href(h[i]) # <<>> THEN out[i + 1]
            ELSE <<h[i]>> \o out[i + 1]
    IN  out[1]

NullBody == [from |-> "null", text |-> <<>>]

\* resolveText as it would be if the HTML part were tried first
resolveTextHtmlFirst(m) ==
    LET parsed == simpleParser(m) IN
    IF parsed.html # <<>> THEN [from |-> "html", text |-> cleanEmailText(htmlToText(parsed.html))]
    ELSE IF parsed.text # <<>> THEN [from |-> "plain", text |-> cleanEmailText(parsed.text)]
    ELSE [from |-> "none", text |-> <<>>]

\* performEmailFetch once the source of the message is downloaded
resolveText(m) ==
    LET parsed == simpleParser(m) IN
    IF parsed.text # <<>> THEN [from |-> "plain", text |-> cleanEmailText(parsed.text)]
    ELSE IF parsed.html # <<>> THEN [from |-> "html", text |-> cleanEmailText(htmlToText(parsed.html))]
    ELSE [from |-> "none", text |-> <<>>]

\* performEmailFetch: the body for the message found under the uid
performEmailFetch(m) ==
    IF m = NoMessage THEN NullBody ELSE resolveText(m)

\* getEmailTextContent behind the token check: performEmailFetch raced against
\* the 30 s timer, and the handler's answer.  o is Ok, TimedOut or the
\* error client.connect() raises
FetchBody(o, m) ==
    /\ pc = "fetch"
    /\ calls' = Append(calls, "imap")
    /\ pc' = "done"
    /\ IF o = Ok
       THEN /\ message' = m
            /\ body' = performEmailFetch(m)
            /\ result' = IF body'.text = <<>> THEN "EmailNotFound" ELSE "ok"
       ELSE /\ UNCHANGED <<message, body>>
            /\ result' = thrown(tool, IF o = TimedOut THEN MsgOperationTimedOut ELSE o)
    /\ UNCHANGED <<mime, txt, mail, st, io, sweep, now, file, oauthConfigured, login, tool, args, account, fbFrom, persistFrom, remoteOutcome, entry, pre, post>>

----------------------------------------------------------------------------
(* The startup sweep, EmailStorage.checkAndCleanExpiredTokens, which       *)
(* Application.run awaits before it starts the login server and the        *)
(* transport                                                               *)

\* no text handed to the normalizer
NoText == [pc |-> "off", kind |-> "none", pre |-> <<>>, url |-> <<>>, post |-> <<>>,
           input |-> <<>>, once |-> <<>>, twice |-> <<>>]

\* a property bag that is undefined, and a structure node that is undefined
NoParams == [defined |-> FALSE, value |-> ""]
NoNode == [t |-> "undefined", hasDisposition |-> FALSE, disposition |-> "",
           dispositionParameters |-> NoParams, parameters |-> NoParams,
           type |-> "", subtype |-> "", size |-> 0, items |-> <<>>, childNodes |-> <<>>]

\* nothing resolved
NoMime == [pc |-> "off", input |-> "none", fn |-> "none",
           bodyParts |-> [defined |-> FALSE, entries |-> <<>>], structure |-> NoNode,
           content |-> <<>>, fetched |-> <<>>, result |-> [kind |-> "none", text |-> <<>>, list |-> <<>>]]

\* no mail operation called
NoMail == [op |-> "none", ret |-> "pending", bpc |-> "off", held |-> 0, acquired |-> FALSE,
           exit |-> "none", produced |-> FALSE, lpc |-> "off", graceful |-> "none",
           forced |-> FALSE, closeThrew |-> FALSE, raised |-> FALSE,
           connected |-> FALSE]

\* the processes that run store operations, and no operation in progress
Procs == {1, 2}
MaxOps == 3

NoOp == [pc |-> "idle", kind |-> "none", email |-> "", acc |-> NoAccount,
         storage |-> createDefaultStorageData(0), hit |-> FALSE]

NoStore == [ops |-> [p \in Procs |-> NoOp], count |-> 0]

\* a call of the email-login tool that has not been made
NoCall == [pc |-> "idle", kind |-> "none", srv |-> 0]

\* no response
NoRes == [status |-> 0, success |-> FALSE, access_token |-> 0, refresh_token |-> 0,
          expires_at |-> NoExpiry]

\* no request to /api/auth/refresh-token
NoReq == [pc |-> "idle", email |-> "", refresh_token |-> 0, account |-> NoAccount,
          before |-> <<>>, res |-> NoRes]

\* the email-login tool before its first call: EmailLoginTool.loginServer is
\* null (0) and EmailLoginTool.isServerRunning is false
NoLogin == [isServerRunning |-> FALSE, loginServer |-> 0, servers |-> <<>>,
            calls |-> [p \in Procs |-> NoCall], last |-> "none", overlapped |-> FALSE,
            req |-> NoReq]

NoIO == [wpc |-> "off", data |-> <<>>, pos |-> 0, rpc |-> "off",
         seen |-> createDefaultStorageData(0), before |-> <<>>]

NoSweep == [pc |-> "off", i |-> 0, storage |-> createDefaultStorageData(0),
            hasChanges |-> FALSE, before |-> <<>>, log |-> <<>>]

\* the token expired more than 55 minutes ago
expiredLongAgo(acc, t) ==
    acc.provider = "Gmail" /\ acc.tokenExpiry # NoExpiry /\ acc.tokenExpiry < t - SweepAge

\* a sweep that drops the account whose refresh failed
markInactiveDropped(storage, i) ==
    removeAccountData(storage, storage.accounts[i].email)

\* the record the sweep keeps for an account whose refresh failed
markInactive(storage, i) ==
    [storage EXCEPT !.accounts[i].isActive = FALSE]

\* the sweep has dealt with account i: refreshed tells how attemptTokenRefresh
\* ended, acc is the account as attemptTokenRefresh left it
SweepSettle(acc, refreshed, remote, direct) ==
    LET kept == [sweep.storage EXCEPT !.accounts[sweep.i] = acc] IN
    sweep' = [sweep EXCEPT
                 !.pc = "scan",
                 !.i = @ + 1,
                 !.storage = IF refreshed THEN kept ELSE markInactive(kept, sweep.i),
                 !.hasChanges = TRUE,
                 !.log = Append(@, [email |-> acc.email, refreshed |-> refreshed,
                                    remote |-> remote, direct |-> direct])]

SweepRead ==
    /\ sweep.pc = "start"
    /\ file' = readStorageFile(file, now)
    /\ sweep' = [sweep EXCEPT !.pc = "scan", !.i = 1,
                               !.storage = readStorage(file, now), !.before = file]
    /\ UNCHANGED <<mime, now, oauthConfigured, login, hvars, io, st, mail, txt>>

\* one turn of the loop up to the first await of attemptTokenRefresh
SweepScan ==
    /\ sweep.pc = "scan"
    /\ sweep.i <= Len(sweep.storage.accounts)
    /\ LET acc == sweep.storage.accounts[sweep.i] IN
       IF ~expiredLongAgo(acc, now)
       THEN sweep' = [sweep EXCEPT !.i = @ + 1]
       ELSE IF acc.refreshToken = 0
       THEN SweepSettle(acc, FALSE, "none", "none")
       ELSE sweep' = [sweep EXCEPT !.pc = "remote"]
    /\ UNCHANGED <<mime, now, file, oauthConfigured, login, hvars, io, st, mail, txt>>

SweepRemoteOutcomes == {"unreachable", "http_error", "bad_json", "flat", "no_expiry", "nested"}

\* attemptTokenRefresh: the POST to GMAIL_TOKEN_REFRESH_ENDPOINT.  "flat" is a
\* 2xx answer without a data member, the shape {success, access_token,
\* expires_at} of the refresh endpoint; "nested" is a 2xx answer whose data
\* member holds access_token and expiry_date; "no_expiry" is one whose data
\* member lacks expiry_date, so that toISOString throws after accessToken is set
SweepRemote(o, life, rt) ==
    /\ sweep.pc = "remote"
    /\ LET acc == sweep.storage.accounts[sweep.i] IN
       CASE o \in {"unreachable", "bad_json", "flat"} ->
              SweepSettle(acc, FALSE, o, "none")
         [] o = "http_error" ->
              IF oauthConfigured
              THEN sweep' = [sweep EXCEPT !.pc = "direct"]
              ELSE SweepSettle(acc, FALSE, o, "none")
         [] o = "no_expiry" ->
              SweepSettle([acc EXCEPT !.accessToken = RemoteAccessToken], FALSE, o, "none")
         [] o = "nested" ->
              SweepSettle([acc EXCEPT !.accessToken = RemoteAccessToken,
                                      !.tokenExpiry = now + life,
                                      !.lastLogin = now,
                                      !.isActive = TRUE,
                                      !.refreshToken = IF rt # 0 THEN rt ELSE @],
                          TRUE, o, "none")
    /\ UNCHANGED <<mime, now, file, oauthConfigured, login, hvars, io, st, mail, txt>>

\* attemptTokenRefresh: the POST to oauth2.googleapis.com/token
SweepDirect(o, expires_in, rt) ==
    /\ sweep.pc = "direct"
    /\ LET acc == sweep.storage.accounts[sweep.i] IN
       IF o = "success"
       THEN SweepSettle([acc EXCEPT !.accessToken = DirectAccessToken,
                                    !.tokenExpiry = directExpiry(now, expires_in),
                                    !.lastLogin = now,
                                    !.refreshToken = IF rt # 0 THEN rt ELSE @],
                        TRUE, "http_error", o)
       ELSE SweepSettle(acc, FALSE, "http_error", o)
    /\ UNCHANGED <<mime, now, file, oauthConfigured, login, hvars, io, st, mail, txt>>

SweepWrite ==
    /\ sweep.pc = "scan"
    /\ sweep.i > Len(sweep.storage.accounts)
    /\ file' = IF sweep.hasChanges THEN writeStorage(sweep.storage, now) ELSE file
    /\ sweep' = [sweep EXCEPT !.pc = "done"]
    /\ UNCHANGED <<mime, now, oauthConfigured, login, hvars, io, st, mail, txt>>

SweepTick ==
    /\ sweep.pc \in {"scan", "remote", "direct"}
    /\ now < StartTime + MaxTicks
    /\ now' = now + 1
    /\ UNCHANGED <<mime, file, oauthConfigured, login, hvars, sweep, io, st, mail, txt>>

SweepOffsets == {-(SweepAge + 2), -(SweepAge + 1), -SweepAge, 10}

InitSweep ==
    /\ now = StartTime
    /\ \E e1 \in {NoExpiry} \cup {StartTime + d : d \in SweepOffsets},
          e2 \in {StartTime + d : d \in SweepOffsets},
          rt \in {0, 1}, active \in BOOLEAN, dflt \in {GmailAddr, QQAddr} :
          file = Stringify(StorageData(
                     << GmailAccount(e1, rt, active), QQAccount,
                        Account(Gmail2Addr, "", "Gmail", 0, 1, 1, e2, 0, TRUE) >>,
                     dflt, 0))
    /\ oauthConfigured \in BOOLEAN
    /\ login = NoLogin
    /\ pc = "idle"
    /\ mime = NoMime
    /\ tool = "none"
    /\ args = NoArgs
    /\ account = NoAccount
    /\ fbFrom = "none"
    /\ persistFrom = "none"
    /\ calls = <<>>
    /\ remoteOutcome = "none"
    /\ result = "none"
    /\ message = NoMessage
    /\ body = NoBody
    /\ entry = NoSnap
    /\ pre = NoSnap
    /\ post = NoSnap
    /\ sweep = [NoSweep EXCEPT !.pc = "start"]
    /\ io = NoIO
    /\ st = NoStore
    /\ mail = NoMail
    /\ txt = NoText

NextSweep ==
    \/ SweepRead
    \/ SweepScan
    \/ \E o \in SweepRemoteOutcomes \ {"nested"} : SweepRemote(o, 0, 0)
    \/ \E life \in Lifetimes, rt \in {0, NewRefreshToken} : SweepRemote("nested", life, rt)
    \/ \E o \in DirectOutcomes \ {"success"} : SweepDirect(o, 0, 0)
    \/ \E e \in {0} \cup Lifetimes, rt \in {0, NewRefreshToken} : SweepDirect("success", e, rt)
    \/ SweepWrite
    \/ SweepTick

SpecSweep == InitSweep /\ [][NextSweep]_vars

----------------------------------------------------------------------------
(* One store write beside one store read.  writeStorage hands the whole    *)
(* text to fs.writeFile on STORAGE_PATH itself: the file is opened with    *)
(* truncation and then filled from the writer's own offset, and the reads  *)
(* of readStorage are separate awaits that may fall anywhere in between    *)

Nul == [t |-> "nul"]

\* a write of chunk at offset pos of the writer's descriptor
WriteAt(f, pos, chunk) ==
    LET n == IF Len(f) > pos + Len(chunk) THEN Len(f) ELSE pos + Len(chunk) IN
    [i \in 1..n |-> IF i > pos /\ i <= pos + Len(chunk) THEN chunk[i - pos]
                    ELSE IF i <= Len(f) THEN f[i] ELSE Nul]

\* setDefaultAccount up to the opening of the file by fs.writeFile
WriteOpen(email) ==
    /\ io.wpc = "start"
    /\ LET storage == readStorage(file, now) IN
       IF findIndex(storage.accounts, email) = 0
       THEN /\ io' = [io EXCEPT !.wpc = "done"]
            /\ file' = readStorageFile(file, now)
       ELSE /\ io' = [io EXCEPT !.wpc = "writing", !.pos = 0,
                                 !.data = writeStorage([storage EXCEPT !.defaultAccount = email], now)]
            /\ file' = <<>>
    /\ UNCHANGED <<mime, now, oauthConfigured, login, hvars, sweep, st, mail, txt>>

\* fs.writeFile: the next k tokens reach the file
WriteChunk(k) ==
    /\ io.wpc = "writing"
    /\ io.pos + k <= Len(io.data)
    /\ file' = WriteAt(file, io.pos, SubSeq(io.data, io.pos + 1, io.pos + k))
    /\ io' = [io EXCEPT !.pos = @ + k,
                        !.wpc = IF io.pos + k = Len(io.data) THEN "done" ELSE "writing"]
    /\ UNCHANGED <<mime, now, oauthConfigured, login, hvars, sweep, st, mail, txt>>

\* readStorage: the read of initializeStorage
ReadInit ==
    /\ io.rpc = "start"
    /\ io' = [io EXCEPT !.rpc = IF WellFormed(file) THEN "read" ELSE "repair"]
    /\ UNCHANGED <<mime, now, file, oauthConfigured, login, hvars, sweep, st, mail, txt>>

\* initializeStorage: an empty or unparsable file is replaced by the default data
ReadRepair ==
    /\ io.rpc = "repair"
    /\ file' = Stringify(createDefaultStorageData(now))
    /\ io' = [io EXCEPT !.rpc = "read"]
    /\ UNCHANGED <<mime, now, oauthConfigured, login, hvars, sweep, st, mail, txt>>

\* readStorage: its own read, the parse and what it returns
ReadFile ==
    /\ io.rpc = "read"
    /\ io' = [io EXCEPT !.rpc = "done", !.seen = readStorage(file, now)]
    /\ file' = readStorageFile(file, now)
    /\ UNCHANGED <<mime, now, oauthConfigured, login, hvars, sweep, st, mail, txt>>

InitFile ==
    /\ now = StartTime
    /\ \E e1 \in {NoExpiry, StartTime + 10}, rt \in {0, 1}, active \in BOOLEAN,
          dflt \in {GmailAddr, QQAddr} :
          file = Stringify(StorageData(<< GmailAccount(e1, rt, active), QQAccount >>, dflt, 0))
    /\ oauthConfigured = TRUE
    /\ login = NoLogin
    /\ pc = "idle"
    /\ mime = NoMime
    /\ tool = "none"
    /\ args = NoArgs
    /\ account = NoAccount
    /\ fbFrom = "none"
    /\ persistFrom = "none"
    /\ calls = <<>>
    /\ remoteOutcome = "none"
    /\ result = "none"
    /\ message = NoMessage
    /\ body = NoBody
    /\ entry = NoSnap
    /\ pre = NoSnap
    /\ post = NoSnap
    /\ sweep = NoSweep
    /\ io = [NoIO EXCEPT !.wpc = "start", !.rpc = "start", !.before = file]
    /\ st = NoStore
    /\ mail = NoMail
    /\ txt = NoText

MaxChunk == 4

NextFile ==
    \/ \E email \in {GmailAddr, QQAddr, Gmail2Addr} : WriteOpen(email)
    \/ \E k \in 1..MaxChunk : WriteChunk(k)
    \/ ReadInit
    \/ ReadRepair
    \/ ReadFile

SpecFile == InitFile /\ [][NextFile]_vars

----------------------------------------------------------------------------
(* Store operations.  Each operation of EmailStorage reads the store,      *)
(* changes its copy and writes it back; the login server's handlers run    *)
(* beside each other, so an operation's read and write are separate steps. *)

\* an addAccount that pushes without looking for the address
upsertAlwaysPush(accounts, acc) == Append(accounts, acc)

\* findIndex by email, then replace at the index or push
upsert(accounts, acc) ==
    IF findIndex(accounts, acc.email) # 0
    THEN [accounts EXCEPT ![findIndex(accounts, acc.email)] = acc]
    ELSE Append(accounts, acc)

\* addAccount and addOAuthAccount: the data they write
addAccountData(data, acc, t) ==
    [data EXCEPT !.accounts = upsert(@, [acc EXCEPT !.lastLogin = t, !.isActive = TRUE]),
                 !.defaultAccount = IF @ = NoDefault THEN acc.email ELSE @]

setDefaultAccountData(data, email) == [data EXCEPT !.defaultAccount = email]

GmailAuth(email, name, refresh_token, expiry_date) ==
    [email |-> email, name |-> name, access_token |-> 1,
     refresh_token |-> refresh_token, expiry_date |-> expiry_date, loginTime |-> 0]

convertGmailAuthToAccount(auth) ==
    Account(auth.email, IF auth.name # "" THEN auth.name ELSE auth.email, "Gmail", 0,
            auth.access_token, auth.refresh_token,
            IF auth.expiry_date # 0 THEN auth.expiry_date ELSE NoExpiry,
            auth.loginTime, TRUE)

\* syncGmailAuthsToAccounts: the data it writes
syncGmailAuthsData(data) ==
    LET acc[k \in 0..Len(data.gmailAuths)] ==
            IF k = 0 THEN data.accounts
            ELSE upsert(acc[k - 1], convertGmailAuthToAccount(data.gmailAuths[k]))
        all == acc[Len(data.gmailAuths)]
    IN  [data EXCEPT !.accounts = all,
                     !.defaultAccount = IF @ = NoDefault /\ Len(all) > 0 THEN all[1].email ELSE @]

\* checkAndCleanExpiredTokens: the data it writes when the refresh succeeds
\* for the accounts at the indices in ok and fails for the others
sweepData(data, ok, t) ==
    [data EXCEPT !.accounts =
        [i \in 1..Len(data.accounts) |->
            IF ~expiredLongAgo(data.accounts[i], t) THEN data.accounts[i]
            ELSE IF i \in ok /\ data.accounts[i].refreshToken # 0
            THEN [data.accounts[i] EXCEPT !.accessToken = DirectAccessToken,
                                          !.tokenExpiry = directExpiry(t, 0),
                                          !.lastLogin = t]
            ELSE [data.accounts[i] EXCEPT !.isActive = FALSE]]]

StoreKinds == {"addAccount", "addOAuthAccount", "updateAccount", "removeAccount",
               "setDefaultAccount", "syncGmailAuthsToAccounts", "sweep"}

\* the operations that throw 'Account not found' for an address not in the store
NeedsAccount == {"updateAccount", "removeAccount", "setDefaultAccount"}

\* what the operation writes; ok matters to the sweep alone
storeResult(op, ok, t) ==
    CASE op.kind \in {"addAccount", "addOAuthAccount"} -> addAccountData(op.storage, op.acc, t)
      [] op.kind = "updateAccount" -> updateAccountData(op.storage, op.acc, t)
      [] op.kind = "removeAccount" -> removeAccountData(op.storage, op.email)
      [] op.kind = "setDefaultAccount" -> setDefaultAccountData(op.storage, op.email)
      [] op.kind = "syncGmailAuthsToAccounts" -> syncGmailAuthsData(op.storage)
      [] op.kind = "sweep" -> sweepData(op.storage, ok, t)

\* an operation is called and reads the store
OpRead(p, kind, acc) ==
    /\ st.ops[p].pc = "idle"
    /\ st.count < MaxOps
    /\ \A q \in Procs : ~(st.ops[q].pc = "read" /\ st.ops[q].kind = "sweep")
    /\ kind = "sweep" => st.count = 0
    /\ st' = [st EXCEPT !.count = @ + 1,
                        !.ops[p] = [pc |-> "read", kind |-> kind, email |-> acc.email,
                                    acc |-> acc, storage |-> readStorage(file, now),
                                    hit |-> findIndex(readStorage(file, now).accounts, acc.email) # 0]]
    /\ file' = readStorageFile(file, now)
    /\ UNCHANGED <<mime, now, oauthConfigured, login, hvars, sweep, io, mail, txt>>

\* the operation changes its copy and writes it, or ends without a write
OpWrite(p, ok) ==
    /\ st.ops[p].pc = "read"
    /\ LET op == st.ops[p]
           quiet == \/ op.kind \in NeedsAccount /\ ~op.hit
                    \/ op.kind = "syncGmailAuthsToAccounts" /\ op.storage.gmailAuths = <<>>
                    \/ op.kind = "sweep" /\ sweepData(op.storage, ok, now) = op.storage
       IN  file' = IF quiet THEN file ELSE writeStorage(storeResult(op, ok, now), now)
    /\ st' = [st EXCEPT !.ops[p].pc = "idle"]
    /\ UNCHANGED <<mime, now, oauthConfigured, login, hvars, sweep, io, mail, txt>>

\* getAccount and getDefaultAccount: a read of the store and a lookup in it.
\* A lookup writes no record, so it is taken as the last operation of a run,
\* when no other operation is between its read and its write.
OpLookup(p, kind, key) ==
    /\ \A q \in Procs : st.ops[q].pc = "idle"
    /\ st.count + 1 = MaxOps
    /\ LET data == readStorage(file, now)
           k == IF kind = "getDefaultAccount" THEN data.defaultAccount ELSE key
       IN  st' = [st EXCEPT !.count = @ + 1,
                            !.ops[p] = [NoOp EXCEPT !.kind = kind, !.email = k, !.storage = data,
                                                    !.acc = IF kind = "getDefaultAccount"
                                                            THEN getDefaultAccount(data)
                                                            ELSE getAccount(data, key)]]
    /\ file' = readStorageFile(file, now)
    /\ UNCHANGED <<mime, now, oauthConfigured, login, hvars, sweep, io, mail, txt>>

QQRecord(email) == Account(email, email, "QQ", 1, 0, 0, NoExpiry, 0, TRUE)

\* a record entered on the login page with the address of another account
\* as its display name
AliasRecord == Account(Gmail2Addr, QQAddr, "QQ", 1, 0, 0, NoExpiry, 0, TRUE)

OAuthRecord(email, expiry) == Account(email, email, "Gmail", 0, 1, 1, expiry, 0, TRUE)

\* the account an EmailService holds after a refresh
RefreshedRecord(email) ==
    Account(email, email, "Gmail", 0, RemoteAccessToken, 1, StartTime + DefaultExpiresIn, 0, TRUE)

Named(email) == [email |-> email]

InitStore ==
    /\ now = StartTime
    /\ \E data \in
          { createDefaultStorageData(0),
            StorageData(<< GmailAccount(StartTime - SweepAge - 1, 1, TRUE), QQAccount >>, QQAddr, 0),
            StorageData(<< GmailAccount(StartTime - SweepAge - 1, 0, TRUE) >>, GmailAddr, 0),
            StorageData(<< AliasRecord, QQAccount >>, QQAddr, 0),
            [createDefaultStorageData(0) EXCEPT !.gmailAuths =
                << GmailAuth(GmailAddr, GmailName, 1, StartTime + 10),
                   GmailAuth("", "", 0, 0),
                   GmailAuth(GmailAddr, "", 0, 0) >>] } :
          file = Stringify(data)
    /\ oauthConfigured = TRUE
    /\ login = NoLogin
    /\ pc = "idle"
    /\ mime = NoMime
    /\ tool = "none"
    /\ args = NoArgs
    /\ account = NoAccount
    /\ fbFrom = "none"
    /\ persistFrom = "none"
    /\ calls = <<>>
    /\ remoteOutcome = "none"
    /\ result = "none"
    /\ message = NoMessage
    /\ body = NoBody
    /\ entry = NoSnap
    /\ pre = NoSnap
    /\ post = NoSnap
    /\ sweep = NoSweep
    /\ io = NoIO
    /\ st = NoStore
    /\ mail = NoMail
    /\ txt = NoText

NextStore ==
    \/ \E p \in Procs, email \in {QQAddr, GmailAddr} : OpRead(p, "addAccount", QQRecord(email))
    \/ \E p \in Procs, email \in {GmailAddr, Gmail2Addr} :
          OpRead(p, "addOAuthAccount", OAuthRecord(email, StartTime + DefaultExpiresIn))
    \/ \E p \in Procs, email \in {GmailAddr, Gmail2Addr} :
          OpRead(p, "updateAccount", RefreshedRecord(email))
    \/ \E p \in Procs, email \in {GmailAddr, QQAddr} : OpRead(p, "removeAccount", Named(email))
    \/ \E p \in Procs, email \in {GmailAddr, QQAddr} : OpRead(p, "setDefaultAccount", Named(email))
    \/ \E p \in Procs : OpRead(p, "syncGmailAuthsToAccounts", Named(""))
    \/ \E p \in Procs : OpRead(p, "sweep", Named(""))
    \/ \E key \in {QQAddr, GmailName} : OpLookup(1, "getAccount", key)
    \/ OpLookup(1, "getDefaultAccount", "")
    \/ \E p \in Procs, ok \in {{}, {1}} : OpWrite(p, ok)

SpecStore == InitStore /\ [][NextStore]_vars

----------------------------------------------------------------------------
(* The email-login tool and its login server.  The tool keeps one          *)
(* LoginServer in EmailLoginTool.loginServer and the flag isServerRunning;  *)
(* start, gmail-oauth and stop await the server's listen and close, so a    *)
(* call has a position.  login.servers lists the LoginServer objects        *)
(* created so far, each with its port and what became of its listen.  A     *)
(* listening server answers POST /api/auth/refresh-token.  The tool        *)
(* touches its servers alone and a request the store alone: SpecLogin      *)
(* follows the calls of the tool, SpecRefresh the requests to a server     *)
(* that the tool has started.                                              *)

MaxServers == 3

DefaultPort == 3000
Ports == {DefaultPort, 3001}

\* another call of the tool is between its await and its return
Busy(p) == \E q \in Procs \ {p} : login.calls[q].pc # "idle"

Listening == {i \in 1..Len(login.servers) : login.servers[i].state = "listening"}

\* startLoginServer(port) and initiateGmailOAuth() (port 3000) up to the
\* await of LoginServer.start()
StartCall(p, kind, port) ==
    /\ login.calls[p].pc = "idle"
    /\ IF login.isServerRunning
       THEN login' = [login EXCEPT !.last = "running", !.overlapped = @ \/ Busy(p)]
       ELSE /\ Len(login.servers) < MaxServers
            /\ login' = [login EXCEPT
                            !.servers = Append(@, [port |-> port, state |-> "new"]),
                            !.loginServer = Len(login.servers) + 1,
                            !.calls[p] = [pc |-> "listen", kind |-> kind,
                                          srv |-> Len(login.servers) + 1],
                            !.overlapped = @ \/ Busy(p)]
    /\ UNCHANGED <<now, file, oauthConfigured, hvars, sweep, io, st, mail, txt, mime>>

\* a listen that sets the flag although the port was taken
ListenEndAlwaysRunning(p, ok) ==
    /\ login.calls[p].pc = "listen"
    /\ LET srv == login.calls[p].srv
           free == \A i \in Listening : login.servers[i].port # login.servers[srv].port
           up == ok /\ free /\ login.servers[srv].state = "new"
       IN  login' = [login EXCEPT !.servers[srv].state = IF up THEN "listening" ELSE "failed",
                                  !.isServerRunning = TRUE,
                                  !.calls[p] = NoCall,
                                  !.last = "started"]
    /\ UNCHANGED <<now, file, oauthConfigured, hvars, sweep, io, st, mail, txt, mime>>

\* LoginServer.start() settles: app.listen calls back and the flag is set, or
\* the server emits 'error' (the port is taken: ok is FALSE for a port held
\* by another program) and the call throws with the flag as it was
ListenEnd(p, ok) ==
    /\ login.calls[p].pc = "listen"
    /\ LET srv == login.calls[p].srv
           free == \A i \in Listening : login.servers[i].port # login.servers[srv].port
           up == ok /\ free /\ login.servers[srv].state = "new"
       IN  login' = [login EXCEPT !.servers[srv].state = IF up THEN "listening" ELSE "failed",
                                  !.isServerRunning = IF up THEN TRUE ELSE @,
                                  !.calls[p] = NoCall,
                                  !.last = IF up THEN "started" ELSE "threw"]
    /\ UNCHANGED <<now, file, oauthConfigured, hvars, sweep, io, st, mail, txt, mime>>

\* stopLoginServer() up to the await of LoginServer.stop(): server.close()
\* ends the listening at once and calls back later
StopCall(p) ==
    /\ login.calls[p].pc = "idle"
    /\ IF ~login.isServerRunning \/ login.loginServer = 0
       THEN login' = [login EXCEPT !.last = "not running", !.overlapped = @ \/ Busy(p)]
       ELSE login' = [login EXCEPT !.servers[login.loginServer].state = "closed",
                                   !.calls[p] = [pc |-> "close", kind |-> "stop",
                                                 srv |-> login.loginServer],
                                   !.overlapped = @ \/ Busy(p)]
    /\ UNCHANGED <<now, file, oauthConfigured, hvars, sweep, io, st, mail, txt, mime>>

\* LoginServer.stop() resolves (it never rejects) and the tool forgets the server
StopEnd(p) ==
    /\ login.calls[p].pc = "close"
    /\ login' = [login EXCEPT !.loginServer = 0,
                              !.isServerRunning = FALSE,
                              !.calls[p] = NoCall,
                              !.last = "stopped"]
    /\ UNCHANGED <<now, file, oauthConfigured, hvars, sweep, io, st, mail, txt, mime>>

\* a comparison that lets every refresh token pass
tokenMatchesAny(acc, refresh_token) == TRUE

\* account.refreshToken !== refresh_token
tokenMatches(acc, refresh_token) == acc.refreshToken = refresh_token

Response(status, acc) ==
    [status |-> status, success |-> status = 200,
     access_token |-> IF status = 200 THEN acc.accessToken ELSE 0,
     refresh_token |-> IF status = 200 THEN acc.refreshToken ELSE 0,
     expires_at |-> IF status = 200 THEN acc.tokenExpiry ELSE NoExpiry]

\* POST /api/auth/refresh-token up to its fetch of oauth2.googleapis.com/token:
\* the fields, the account, the refresh token, the expiry and the configuration
ReqBegin(email, refresh_token) ==
    /\ login.req.pc \in {"idle", "done"}
    /\ Listening # {}
    /\ LET data == readStorage(file, now)
           acc == getAccount(data, email)
           tokenCheck == checkTokenExpiry(data, email, now)
           status == IF email = "" \/ refresh_token = 0 THEN 400
                     ELSE IF acc = NoAccount THEN 404
                     ELSE IF acc.provider # "Gmail" THEN 404
                     ELSE IF ~tokenMatches(acc, refresh_token) THEN 401
                     ELSE IF ~tokenCheck.needsRefresh /\ ~tokenCheck.isExpired THEN 200
                     ELSE IF ~oauthConfigured THEN 500
                     ELSE 0
       IN  login' = [login EXCEPT !.req = [pc |-> IF status = 0 THEN "fetch" ELSE "done",
                                           email |-> email, refresh_token |-> refresh_token,
                                           account |-> acc, before |-> file,
                                           res |-> Response(status, acc)]]
    /\ file' = readStorageFile(file, now)
    /\ UNCHANGED <<now, oauthConfigured, hvars, sweep, io, st, mail, txt, mime>>

\* the answer of oauth2.googleapis.com/token and what follows it: the account
\* takes the new tokens and EmailStorage.updateAccount saves it
ReqFetch(o, expires_in, rt) ==
    /\ login.req.pc = "fetch"
    /\ LET acc == [login.req.account EXCEPT
                      !.accessToken = DirectAccessToken,
                      !.tokenExpiry = directExpiry(now, expires_in),
                      !.lastLogin = now,
                      !.refreshToken = IF rt # 0 THEN rt ELSE @]
           storage == readStorage(file, now)
           saved == o = "success" /\ findIndex(storage.accounts, acc.email) # 0
           status == CASE o = "unreachable" -> 500
                       [] o = "http_error" -> 401
                       [] o = "bad_json" -> 500
                       [] o = "oauth_error" -> 400
                       [] o = "success" -> IF saved THEN 200 ELSE 500
       IN  /\ file' = IF saved THEN writeStorage(updateAccountData(storage, acc, now), now)
                      ELSE readStorageFile(file, now)
           /\ login' = [login EXCEPT !.req.pc = "done", !.req.res = Response(status, acc)]
    /\ UNCHANGED <<now, oauthConfigured, hvars, sweep, io, st, mail, txt, mime>>

InitLogin ==
    /\ now = StartTime
    /\ file = Stringify(createDefaultStorageData(0))
    /\ oauthConfigured = TRUE
    /\ login = NoLogin
    /\ pc = "idle"
    /\ mime = NoMime
    /\ tool = "none"
    /\ args = NoArgs
    /\ account = NoAccount
    /\ fbFrom = "none"
    /\ persistFrom = "none"
    /\ calls = <<>>
    /\ remoteOutcome = "none"
    /\ result = "none"
    /\ message = NoMessage
    /\ body = NoBody
    /\ entry = NoSnap
    /\ pre = NoSnap
    /\ post = NoSnap
    /\ sweep = NoSweep
    /\ io = NoIO
    /\ st = NoStore
    /\ mail = NoMail
    /\ txt = NoText

NextLogin ==
    \/ \E p \in Procs, port \in Ports : StartCall(p, "start", port)
    \/ \E p \in Procs : StartCall(p, "gmail-oauth", DefaultPort)
    \/ \E p \in Procs, ok \in BOOLEAN : ListenEnd(p, ok)
    \/ \E p \in Procs : StopCall(p)
    \/ \E p \in Procs : StopEnd(p)

SpecLogin == InitLogin /\ [][NextLogin]_vars

\* the tool has started a server on port 3000, and the store holds accounts
InitRefresh ==
    /\ now = StartTime
    /\ \E data \in
          { StorageData(<< GmailAccount(StartTime + RefreshWindow - 1, 1, TRUE), QQAccount >>, QQAddr, 0),
            StorageData(<< GmailAccount(StartTime + DefaultExpiresIn, 1, TRUE) >>, GmailAddr, 0),
            StorageData(<< QQAccount, GmailAccount(StartTime - 1, 0, TRUE) >>, QQAddr, 0) } :
          file = Stringify(data)
    /\ oauthConfigured \in BOOLEAN
    /\ login = [NoLogin EXCEPT !.isServerRunning = TRUE, !.loginServer = 1, !.last = "started",
                               !.servers = << [port |-> DefaultPort, state |-> "listening"] >>]
    /\ pc = "idle"
    /\ mime = NoMime
    /\ tool = "none"
    /\ args = NoArgs
    /\ account = NoAccount
    /\ fbFrom = "none"
    /\ persistFrom = "none"
    /\ calls = <<>>
    /\ remoteOutcome = "none"
    /\ result = "none"
    /\ message = NoMessage
    /\ body = NoBody
    /\ entry = NoSnap
    /\ pre = NoSnap
    /\ post = NoSnap
    /\ sweep = NoSweep
    /\ io = NoIO
    /\ st = NoStore
    /\ mail = NoMail
    /\ txt = NoText

NextRefresh ==
    \/ \E email \in {GmailAddr, GmailName, QQAddr, Gmail2Addr, ""},
          refresh_token \in {0, 1, NewRefreshToken} : ReqBegin(email, refresh_token)
    \/ \E o \in DirectOutcomes \ {"success"} : ReqFetch(o, 0, 0)
    \/ \E expires_in \in {0} \cup Lifetimes, rt \in {0, NewRefreshToken} :
          ReqFetch("success", expires_in, rt)

SpecRefresh == InitRefresh /\ [][NextRefresh]_vars

----------------------------------------------------------------------------
(* One mail operation of an EmailService: getEmails, getEmailDetail,       *)
(* getEmailTextContent or validateConnection, with the mailbox lock it     *)
(* takes and the teardown it starts.  A remote call ends well, ends with   *)
(* an error, or never ends ("hang").                                       *)

MailOps == {"getEmails", "getEmailDetail", "getEmailTextContent", "validateConnection"}

\* what a caller can be handed that is not an error
MailSuccess == {"ok", "empty", "null", "true"}

\* a finally block that releases the lock on the paths without an error only
releaseOnExitNoThrow(held, path) == IF path = "throw" THEN held ELSE 0

\* finally { lock.release() }: the locks held when the body is left on path
releaseOnExit(held, path) == 0

\* the body of the operation is left on path with value: its finally block
\* runs and the value reaches whoever still waits for it
BodyExit(m, path, value) ==
    LET left == [m EXCEPT !.bpc = "done", !.exit = path,
                          !.held = releaseOnExit(m.held, path)]
    IN  CASE m.op \in {"getEmails", "getEmailDetail"} ->
               [left EXCEPT !.ret = value]
          [] m.op = "validateConnection" ->
               [left EXCEPT !.ret = "false"]
          [] m.op = "getEmailTextContent" ->
               IF m.ret # "pending" THEN left
               ELSE [left EXCEPT !.ret = value, !.produced = value \in MailSuccess,
                                 !.lpc = "racing"]

\* imapFlow.connect() in connectImap, client.connect() in performEmailFetch
MailConnect(o) ==
    /\ mail.bpc = "connect"
    /\ mail' = CASE o = "ok" -> [mail EXCEPT !.bpc = "lock", !.connected = TRUE]
                 [] o = "error" -> BodyExit(mail, "throw", "error")
                 [] o = "hang" -> [mail EXCEPT !.bpc = "hung"]
    /\ UNCHANGED <<mime, now, file, oauthConfigured, login, hvars, sweep, io, st, txt>>

\* getMailboxLock('INBOX')
MailLock(o) ==
    /\ mail.bpc = "lock"
    /\ mail' = CASE o = "ok" ->
                      [mail EXCEPT !.held = 1, !.acquired = TRUE,
                                   !.bpc = CASE mail.op = "getEmails" -> "status"
                                             [] mail.op = "validateConnection" -> "unlock"
                                             [] OTHER -> "fetch"]
                 [] o = "error" -> BodyExit(mail, "throw", "error")
                 [] o = "hang" -> [mail EXCEPT !.bpc = "hung"]
    /\ UNCHANGED <<mime, now, file, oauthConfigured, login, hvars, sweep, io, st, txt>>

\* getEmails: imapFlow.status('INBOX', { messages: true })
MailStatus(o) ==
    /\ mail.bpc = "status"
    /\ mail' = CASE o = "zero" -> BodyExit(mail, "early", "empty")
                 [] o = "some" -> [mail EXCEPT !.bpc = "fetch"]
                 [] o = "error" -> BodyExit(mail, "throw", "error")
                 [] o = "hang" -> [mail EXCEPT !.bpc = "hung"]
    /\ UNCHANGED <<mime, now, file, oauthConfigured, login, hvars, sweep, io, st, txt>>

\* the fetch of the messages, of the one message, or of the uid's envelope
MailFetch(o) ==
    /\ mail.bpc = "fetch"
    /\ mail' = CASE o = "found" ->
                      IF mail.op = "getEmailTextContent"
                      THEN [mail EXCEPT !.bpc = "source"]
                      ELSE BodyExit(mail, "return", "ok")
                 [] o = "none" ->
                      IF mail.op = "getEmails"
                      THEN BodyExit(mail, "return", "ok")
                      ELSE BodyExit(mail, "early", "null")
                 [] o = "error" -> BodyExit(mail, "throw", "error")
                 [] o = "hang" -> [mail EXCEPT !.bpc = "hung"]
    /\ UNCHANGED <<mime, now, file, oauthConfigured, login, hvars, sweep, io, st, txt>>

\* performEmailFetch: the fetch of the source, simpleParser and the text
MailSource(o) ==
    /\ mail.bpc = "source"
    /\ mail' = CASE o = "text" -> BodyExit(mail, "return", "ok")
                 [] o = "no_text" -> BodyExit(mail, "return", "empty")
                 [] o = "none" -> BodyExit(mail, "early", "null")
                 [] o = "error" -> BodyExit(mail, "throw", "error")
                 [] o = "hang" -> [mail EXCEPT !.bpc = "hung"]
    /\ UNCHANGED <<mime, now, file, oauthConfigured, login, hvars, sweep, io, st, txt>>

\* validateConnection: lock.release()
MailUnlock ==
    /\ mail.bpc = "unlock"
    /\ mail' = [mail EXCEPT !.held = 0, !.produced = TRUE, !.bpc = "logout"]
    /\ UNCHANGED <<mime, now, file, oauthConfigured, login, hvars, sweep, io, st, txt>>

\* validateConnection: await this.disconnectImap(), inside the try block
MailDisconnect(o) ==
    /\ mail.bpc = "logout"
    /\ mail' = CASE o = "ok" -> [mail EXCEPT !.bpc = "done", !.exit = "return", !.ret = "true"]
                 [] o = "error" -> [mail EXCEPT !.bpc = "done", !.exit = "throw", !.ret = "false"]
                 [] o = "hang" -> [mail EXCEPT !.bpc = "hung"]
    /\ UNCHANGED <<mime, now, file, oauthConfigured, login, hvars, sweep, io, st, txt>>

\* getEmailTextContent: the 30 s timer wins the race
RaceTimer ==
    /\ mail.op = "getEmailTextContent"
    /\ mail.ret = "pending"
    /\ mail' = [mail EXCEPT !.ret = "timeout", !.lpc = "racing"]
    /\ UNCHANGED <<mime, now, file, oauthConfigured, login, hvars, sweep, io, st, txt>>

\* a safeLogout whose catch block gives up at once
safeLogoutCatchGivesUp(m, why) == [m EXCEPT !.graceful = why, !.lpc = "done"]

\* safeLogout's catch block: on to the forced close
safeLogoutCatch(m, why) == [m EXCEPT !.graceful = why, !.lpc = "force"]

\* safeLogout: client.logout() settles before the 3 s timer
LogoutSettle(o) ==
    /\ mail.lpc = "racing"
    /\ mail' = IF o = "ok" THEN [mail EXCEPT !.graceful = "ok", !.lpc = "done"]
               ELSE safeLogoutCatch(mail, "failed")
    /\ UNCHANGED <<mime, now, file, oauthConfigured, login, hvars, sweep, io, st, txt>>

\* safeLogout: the 3 s timer rejects with 'Logout timeout'
LogoutTimer ==
    /\ mail.lpc = "racing"
    /\ mail' = safeLogoutCatch(mail, "timeout")
    /\ UNCHANGED <<mime, now, file, oauthConfigured, login, hvars, sweep, io, st, txt>>

\* safeLogout: client.close() inside its own try block; what it throws is
\* caught and logged
ForceClose(o) ==
    /\ mail.lpc = "force"
    /\ o \in {"ok", "throw"}
    /\ mail' = [mail EXCEPT !.forced = TRUE, !.closeThrew = (o = "throw"), !.lpc = "done"]
    /\ UNCHANGED <<mime, now, file, oauthConfigured, login, hvars, sweep, io, st, txt>>

RemoteEnds == {"ok", "error", "hang"}

InitMail ==
    /\ now = StartTime
    /\ file = Stringify(StorageData(<< GmailAccount(StartTime + 10, 1, TRUE), QQAccount >>, QQAddr, 0))
    /\ oauthConfigured = TRUE
    /\ login = NoLogin
    /\ pc = "idle"
    /\ mime = NoMime
    /\ tool = "none"
    /\ args = NoArgs
    /\ account = NoAccount
    /\ fbFrom = "none"
    /\ persistFrom = "none"
    /\ calls = <<>>
    /\ remoteOutcome = "none"
    /\ result = "none"
    /\ message = NoMessage
    /\ body = NoBody
    /\ entry = NoSnap
    /\ pre = NoSnap
    /\ post = NoSnap
    /\ sweep = NoSweep
    /\ io = NoIO
    /\ st = NoStore
    /\ \E op \in MailOps : mail = [NoMail EXCEPT !.op = op, !.bpc = "connect"]
    /\ txt = NoText

NextMail ==
    \/ \E o \in RemoteEnds : MailConnect(o)
    \/ \E o \in RemoteEnds : MailLock(o)
    \/ \E o \in {"zero", "some", "error", "hang"} : MailStatus(o)
    \/ \E o \in {"found", "none", "error", "hang"} : MailFetch(o)
    \/ \E o \in {"text", "no_text", "none", "error", "hang"} : MailSource(o)
    \/ MailUnlock
    \/ \E o \in RemoteEnds : MailDisconnect(o)
    \/ RaceTimer
    \/ \E o \in {"ok", "error"} : LogoutSettle(o)
    \/ LogoutTimer
    \/ \E o \in {"ok", "throw"} : ForceClose(o)

\* timers fire and settled calls are handled: the event loop leaves no
\* enabled step waiting for ever
SpecMail == InitMail /\ [][NextMail]_vars /\ WF_vars(NextMail)

----------------------------------------------------------------------------
(* The text normalizer applied to a text, and applied again to its result  *)

MaxSegs == 3

UrlX == <<"h", "t", "t", "p", ":", "/", "/", "x">>
UrlY == <<"h", "t", "t", "p", "s", ":", "/", "/", "y", ".", "z">>

\* pieces the texts are made of
Segments ==
    { UrlX, <<"[">> \o UrlX \o <<"]">>, <<"h", "t">>, <<"t", "p", ":", "/", "/", "x">>,
      <<"a">>, <<SP>>, <<TAB>>, <<NL>>, <<ZWSP>>, <<"]">>, <<SP, SP>>, <<NL, NL, NL>> }

Words == { <<"S", "e", "e">>, <<"f", "o", "r">> }

Concat(segs) ==
    LET cat[k \in 0..Len(segs)] == IF k = 0 THEN <<>> ELSE cat[k - 1] \o segs[k]
    IN  cat[Len(segs)]

\* a URL alone on a line between two lines of text
OwnLine(head, url, tail) == head \o <<NL>> \o url \o <<NL>> \o tail

\* a URL inside a sentence
Embedded(head, url, tail) == head \o <<SP>> \o url \o <<SP>> \o tail

Normalize ==
    /\ txt.pc = "in"
    /\ txt' = [txt EXCEPT !.pc = "once", !.once = cleanEmailText(txt.input)]
    /\ UNCHANGED <<mime, now, file, oauthConfigured, login, hvars, sweep, io, st, mail>>

NormalizeAgain ==
    /\ txt.pc = "once"
    /\ txt' = [txt EXCEPT !.pc = "twice", !.twice = cleanEmailText(txt.once)]
    /\ UNCHANGED <<mime, now, file, oauthConfigured, login, hvars, sweep, io, st, mail>>

InitText ==
    /\ now = StartTime
    /\ file = Stringify(createDefaultStorageData(0))
    /\ oauthConfigured = TRUE
    /\ login = NoLogin
    /\ pc = "idle"
    /\ mime = NoMime
    /\ tool = "none"
    /\ args = NoArgs
    /\ account = NoAccount
    /\ fbFrom = "none"
    /\ persistFrom = "none"
    /\ calls = <<>>
    /\ remoteOutcome = "none"
    /\ result = "none"
    /\ message = NoMessage
    /\ body = NoBody
    /\ entry = NoSnap
    /\ pre = NoSnap
    /\ post = NoSnap
    /\ sweep = NoSweep
    /\ io = NoIO
    /\ st = NoStore
    /\ mail = NoMail
    /\ \/ \E n \in 0..MaxSegs : \E segs \in [1..n -> Segments] :
             txt = [NoText EXCEPT !.pc = "in", !.kind = "mix", !.input = Concat(segs)]
       \/ \E a \in Words, u \in {UrlX, UrlY}, b \in Words :
             \/ txt = [NoText EXCEPT !.pc = "in", !.kind = "ownline", !.pre = a, !.url = u,
                                     !.post = b, !.input = OwnLine(a, u, b)]
             \/ txt = [NoText EXCEPT !.pc = "in", !.kind = "embedded", !.pre = a, !.url = u,
                                     !.post = b, !.input = Embedded(a, u, b)]

NextText ==
    \/ Normalize
    \/ NormalizeAgain

SpecText == InitText /\ [][NextText]_vars

----------------------------------------------------------------------------
(* The body of a message from its fetched parts, and its attachments from  *)
(* its structure (extractBodyFromParts, processEmailBodyFromParts,         *)
(* parseAttachmentsFromStructure)                                          *)

\* a Buffer holding text, and the value undefined where a Buffer is expected
Buffer(text) == [defined |-> TRUE, text |-> text]
Undefined == [defined |-> FALSE, text |-> <<>>]

\* message.bodyParts: a Map given by its entries in insertion order, or undefined
Parts(entries) == [defined |-> TRUE, entries |-> entries]
NoParts == [defined |-> FALSE, entries |-> <<>>]

\* what a call comes back with: a string, a list, null, or a TypeError raised
Value(text) == [kind |-> "string", text |-> text, list |-> <<>>]
List(list) == [kind |-> "list", text |-> <<>>, list |-> list]
Null == [kind |-> "null", text |-> <<>>, list |-> <<>>]
TypeError == [kind |-> "raise", text |-> <<>>, list |-> <<>>]

First(S) == CHOOSE j \in S : \A k \in S : j <= k

\* Map.get: undefined when the key is not in the map
mapGet(entries, key) ==
    LET hits == {k \in 1..Len(entries) : entries[k].key = key}
    IN  IF hits = {} THEN Undefined ELSE entries[First(hits)].content

\* content.toString('utf8'); a method call on undefined raises
toStringUtf8(content) == IF content.defined THEN Value(content.text) ELSE TypeError

\* isHtmlContent(s) ? stripHtmlTags(s) : cleanPlainText(s)
renderContent(contentStr) ==
    IF isHtmlContent(contentStr) THEN stripHtmlTags(contentStr) ELSE cleanPlainText(contentStr)

renderPart(content) ==
    IF toStringUtf8(content).kind = "raise" THEN TypeError
    ELSE Value(renderContent(toStringUtf8(content).text))

\* a guard that lets an undefined bodyParts through
bodyPartsMissingNever(bodyParts) == FALSE

\* !bodyParts: a Map is truthy, also when it is empty
bodyPartsMissing(bodyParts) == ~bodyParts.defined

\* a loop that takes a part whatever its content
partUsableAnyContent(part) == part.key # "HEADER"

\* key !== 'HEADER' && content: a Buffer is truthy, also when it is empty
partUsable(part) == part.key # "HEADER" /\ part.content.defined

\* the loop over bodyParts.entries(): the first usable part, rendered
firstOtherPart(entries) ==
    LET usable == {k \in 1..Len(entries) : partUsable(entries[k])}
    IN  IF usable = {} THEN Value(<<>>) ELSE renderPart(entries[First(usable)].content)

extractBodyFromParts(bodyParts) ==
    IF bodyPartsMissing(bodyParts) THEN Value(<<>>)
    ELSE IF ~bodyParts.defined THEN TypeError
    ELSE IF mapGet(bodyParts.entries, "TEXT").defined
         THEN toStringUtf8(mapGet(bodyParts.entries, "TEXT"))
    ELSE firstOtherPart(bodyParts.entries)

processEmailBodyFromParts(bodyParts) ==
    IF bodyPartsMissing(bodyParts) THEN Value(<<>>)
    ELSE IF ~bodyParts.defined THEN TypeError
    ELSE IF mapGet(bodyParts.entries, "TEXT").defined
         THEN renderPart(mapGet(bodyParts.entries, "TEXT"))
    ELSE IF mapGet(bodyParts.entries, "1").defined
         THEN renderPart(mapGet(bodyParts.entries, "1"))
    ELSE firstOtherPart(bodyParts.entries)

\* a node of message.bodyStructure: undefined, a string, an array of nodes or
\* an object; "" stands for a property the object does not have
Params(value) == [defined |-> TRUE, value |-> value]
StringNode == [NoNode EXCEPT !.t = "string"]
ArrayNode(items) == [NoNode EXCEPT !.t = "array", !.items = items]
ObjectNode(disposition, dparams, params, type, subtype, size) ==
    [NoNode EXCEPT !.t = "object", !.hasDisposition = disposition # "",
                   !.disposition = disposition, !.dispositionParameters = dparams,
                   !.parameters = params, !.type = type, !.subtype = subtype, !.size = size]
MultipartNode(childNodes) ==
    [NoNode EXCEPT !.t = "object", !.type = "multipart", !.subtype = "mixed",
                   !.childNodes = childNodes]

\* dispositionParams?.filename, params?.name
optional(params) == IF params.defined THEN params.value ELSE ""

\* a || b for strings
orElse(a, b) == IF a # "" THEN a ELSE b

\* struct && typeof struct === 'object' && struct !== null
isObject(struct) == struct.t \in {"object", "array"}

\* the EmailAttachment built from an object whose disposition is 'attachment'
attachmentOf(structObj) ==
    [filename |-> orElse(optional(structObj.dispositionParameters),
                         orElse(optional(structObj.parameters), "unknown")),
     contentType |-> IF structObj.type # "" /\ structObj.subtype # ""
                     THEN <<structObj.type, structObj.subtype>>
                     ELSE <<"application", "octet-stream">>,
     size |-> structObj.size]

RECURSIVE parseStructure(_)
RECURSIVE parseEach(_)

\* struct.forEach(part => parseStructure(part))
parseEach(items) ==
    IF items = <<>> THEN List(<<>>)
    ELSE IF parseStructure(Head(items)).kind = "raise" \/ parseEach(Tail(items)).kind = "raise"
         THEN TypeError
    ELSE List(parseStructure(Head(items)).list \o parseEach(Tail(items)).list)

\* 'disposition' in struct raises when struct is not an object
parseStructure(struct) ==
    IF struct.t = "array" THEN parseEach(struct.items)
    ELSE IF ~isObject(struct) THEN List(<<>>)
    ELSE IF struct.t # "object" THEN TypeError
    ELSE IF struct.hasDisposition /\ struct.disposition = "attachment"
         THEN List(<<attachmentOf(struct)>>)
    ELSE List(<<>>)

parseAttachmentsFromStructure(bodyStructure) ==
    IF bodyStructure.t = "undefined" THEN List(<<>>) ELSE parseStructure(bodyStructure)

\* the EmailMessage made of one fetch result: envelope?.date || new Date()
NoDate == 0
emailMessage(fetchResult, t) ==
    [uid |-> fetchResult.uid, date |-> IF fetchResult.date = NoDate THEN t ELSE fetchResult.date]

\* a getEmails that returns the messages in the order the server sent them
sortNone(messages) == messages

\* messages.sort((a, b) => b.date.getTime() - a.date.getTime()): a stable
\* sort, each message placed behind the ones that are not older than it
sort(messages) ==
    LET sorted[n \in 0..Len(messages)] ==
            IF n = 0 THEN <<>>
            ELSE LET done == sorted[n - 1]
                     m == messages[n]
                     ahead == {k \in 0..Len(done) : \A j \in 1..k : done[j].date - m.date >= 0}
                     at == CHOOSE k \in ahead : \A j \in ahead : j <= k
                 IN  SubSeq(done, 1, at) \o <<m>> \o SubSeq(done, at + 1, Len(done))
    IN  sorted[Len(messages)]

\* getEmails behind the lock: the fetched messages, the newest first
getEmails(fetched, t) ==
    IF fetched = <<>> THEN <<>>
    ELSE sort([k \in 1..Len(fetched) |-> emailMessage(fetched[k], t)])

\* Inputs

MaxParts == 2
MaxFetched == 3

\* what the server sends for a range: messages in any order, each with its
\* uid and the date of its envelope, or none
Dates == {NoDate, StartTime - 2, StartTime - 1}
FetchResults ==
    {f \in UNION {[1..n -> [uid : 1..MaxFetched, date : Dates]] : n \in 0..MaxFetched} :
        \A j, k \in 1..Len(f) : f[j].uid = f[k].uid => j = k}

PartKeys == {"HEADER", "TEXT", "1", "2"}

PlainText == <<"h", "i">>
HtmlText == <<"<", "p", ">", "a", "&", "a", "m", "p", ";", "b", "<", "/", "p", ">">>
UnclosedTag == <<"a", "<", "d", "i", "v">>
OddEntities == <<"<", "b", "r", ">", "&", "#", "x", ";", "&", "#", "6", "5", ";", "&", "z", "z", ";", "&", "#", "x", "4", "1", ";">>
MimeText == <<"-", "-", "b", "1", NL, "C", "o", "n", "t", "e", "n", "t", "-", "T", "y", "p", "e", ":", SP, "x", NL, "t">>
OpenAnchor == <<"<", "a", SP, "h", "r", "e", "f", "=", "'", "u", "'", ">", "t">>
LinkAndImage == <<"<", "a", SP, "h", "r", "e", "f", "=", "\"", "u", "\"", ">", "t", "<", "/", "a", ">", "<", "i", "m", "g", SP, "a", "l", "t", "=", "'", "i", "'", ">">>

PartContents == {Undefined, Buffer(<<>>), Buffer(PlainText), Buffer(HtmlText), Buffer(OddEntities)}
\* &#x1F600;&#128512;&#65; : twice the code point 0x1F600, then "A"
AstralEntities == <<"&", "#", "x", "1", "F", "6", "0", "0", ";", "&", "#", "1", "2", "8", "5", "1", "2", ";", "&", "#", "6", "5", ";">>
\* &amp;lt;b&amp;#60; : the text of "&lt;b&#60;", escaped once
NestedEntities == <<"&", "a", "m", "p", ";", "l", "t", ";", "b", "&", "a", "m", "p", ";", "#", "6", "0", ";">>
Contents == {<<>>, PlainText, HtmlText, UnclosedTag, OddEntities, MimeText, OpenAnchor, LinkAndImage, AstralEntities, NestedEntities}

\* maps of at most MaxParts entries: a key occurs once
BodyParts ==
    {NoParts} \cup
    {Parts(entries) : entries \in
        {e \in UNION {[1..n -> [key : PartKeys, content : PartContents]] : n \in 0..MaxParts} :
            \A j, k \in 1..Len(e) : e[j].key = e[k].key => j = k}}

Leaves ==
    { NoNode, StringNode,
      ObjectNode("attachment", Params("foo.pdf"), Params("bar"), "application", "pdf", 3),
      ObjectNode("attachment", NoParams, Params("bar"), "image", "", 0),
      ObjectNode("attachment", NoParams, NoParams, "", "", 0),
      ObjectNode("inline", Params("foo.pdf"), NoParams, "image", "png", 1),
      ObjectNode("", NoParams, NoParams, "text", "plain", 2) }

LeafSeqs == UNION {[1..n -> Leaves] : n \in 0..MaxParts}
Groups == {ArrayNode(items) : items \in LeafSeqs} \cup {MultipartNode(items) : items \in LeafSeqs}
Structures ==
    Leaves \cup Groups \cup {ArrayNode(<<g, l>>) : g \in Groups, l \in {NoNode, StringNode}}

MimeDone(fn, res) ==
    /\ mime.pc = "in"
    /\ mime' = [mime EXCEPT !.pc = "done", !.fn = fn, !.result = res]
    /\ UNCHANGED <<now, file, oauthConfigured, login, hvars, sweep, io, st, mail, txt>>

ExtractBody ==
    /\ mime.input = "parts"
    /\ MimeDone("extractBodyFromParts", extractBodyFromParts(mime.bodyParts))

ProcessBody ==
    /\ mime.input = "parts"
    /\ MimeDone("processEmailBodyFromParts", processEmailBodyFromParts(mime.bodyParts))

ParseAttachments ==
    /\ mime.input = "structure"
    /\ MimeDone("parseAttachmentsFromStructure", parseAttachmentsFromStructure(mime.structure))

StripHtml ==
    /\ mime.input = "content"
    /\ MimeDone("stripHtmlTags", Value(stripHtmlTags(mime.content)))

DecodeEntities ==
    /\ mime.input = "content"
    /\ MimeDone("decodeHtmlEntities", Value(decodeHtmlEntities(mime.content)))

ListEmails ==
    /\ mime.input = "messages"
    /\ MimeDone("getEmails", List(getEmails(mime.fetched, now)))

CleanPlain ==
    /\ mime.input = "content"
    /\ MimeDone("cleanPlainText", Value(cleanPlainText(mime.content)))

CleanEmail ==
    /\ mime.input = "content"
    /\ MimeDone("cleanEmailText", Value(cleanEmailText(mime.content)))

InitMime ==
    /\ now = StartTime
    /\ file = Stringify(createDefaultStorageData(0))
    /\ oauthConfigured = TRUE
    /\ login = NoLogin
    /\ pc = "idle"
    /\ tool = "none"
    /\ args = NoArgs
    /\ account = NoAccount
    /\ fbFrom = "none"
    /\ persistFrom = "none"
    /\ calls = <<>>
    /\ remoteOutcome = "none"
    /\ result = "none"
    /\ message = NoMessage
    /\ body = NoBody
    /\ entry = NoSnap
    /\ pre = NoSnap
    /\ post = NoSnap
    /\ sweep = NoSweep
    /\ io = NoIO
    /\ st = NoStore
    /\ mail = NoMail
    /\ txt = NoText
    /\ \/ \E bp \in BodyParts :
             mime = [NoMime EXCEPT !.pc = "in", !.input = "parts", !.bodyParts = bp]
       \/ \E struct \in Structures :
             mime = [NoMime EXCEPT !.pc = "in", !.input = "structure", !.structure = struct]
       \/ \E c \in Contents :
             mime = [NoMime EXCEPT !.pc = "in", !.input = "content", !.content = c]
       \/ \E f \in FetchResults :
             mime = [NoMime EXCEPT !.pc = "in", !.input = "messages", !.fetched = f]

NextMime ==
    \/ ExtractBody
    \/ ProcessBody
    \/ ParseAttachments
    \/ StripHtml
    \/ DecodeEntities
    \/ CleanPlain
    \/ CleanEmail
    \/ ListEmails

SpecMime == InitMime /\ [][NextMime]_vars

----------------------------------------------------------------------------
(* The specification of one tool invocation *)

ExpiryOffsets == {-1, 0, 1, 4, 5, 6, 10}

Init ==
    /\ now = StartTime
    /\ \E expiry \in {NoExpiry} \cup {StartTime + d : d \in ExpiryOffsets},
          rt \in {0, 1}, active \in BOOLEAN, dflt \in {GmailAddr, QQAddr} :
          file = Stringify(StorageData(<<GmailAccount(expiry, rt, active), QQAccount>>, dflt, 0))
    /\ oauthConfigured \in BOOLEAN
    /\ login = NoLogin
    /\ pc = "idle"
    /\ mime = NoMime
    /\ tool = "none"
    /\ args = NoArgs
    /\ account = NoAccount
    /\ fbFrom = "none"
    /\ persistFrom = "none"
    /\ calls = <<>>
    /\ remoteOutcome = "none"
    /\ result = "none"
    /\ message = NoMessage
    /\ body = NoBody
    /\ entry = NoSnap
    /\ pre = NoSnap
    /\ post = NoSnap
    /\ sweep = NoSweep
    /\ io = NoIO
    /\ st = NoStore
    /\ mail = NoMail
    /\ txt = NoText

Next ==
    \/ \E tl \in Tools, arg \in AccountArgs : \E hasContent \in ContentArgs(tl) : HandlerStart(tl, arg, hasContent)
    \/ CheckToken
    \/ \E o \in RemoteOutcomes \ {"success"} : RemoteRefresh(o, 0, 0)
    \/ \E life \in Lifetimes, rt \in {0, NewRefreshToken} : RemoteRefresh("success", life, rt)
    \/ \E o \in DirectOutcomes \ {"success"} : DirectRefresh(o, 0, 0)
    \/ \E e \in {0} \cup Lifetimes, rt \in {0, NewRefreshToken} : DirectRefresh("success", e, rt)
    \/ Persist
    \/ \E o \in {Ok} \cup ImapErrors : ConnectImap(o)
    \/ \E o \in {Ok, Empty} \cup ImapErrors : GetEmails(o)
    \/ \E o \in {TimedOut} \cup ImapErrors : FetchBody(o, NoMessage)
    \/ \E m \in Mailbox \cup {NoMessage} : FetchBody(Ok, m)
    \/ \E o \in {Ok} \cup SmtpErrors : SendMail(o)
    \/ Tick
    \/ \E email \in {GmailAddr, QQAddr} : RemoveAccount(email)

Spec == Init /\ [][Next]_vars

----------------------------------------------------------------------------
(* Properties of one tool invocation *)

Made(c) == \E i \in 1..Len(calls) : calls[i] = c

BothParts(m) == m # NoMessage /\ m.plain # Absent /\ m.html # Absent

\* the record the store file f holds for the address of acc
Stored(f, acc) == getAccount(readStorage(f, 0), acc.email)

SameTokens(a, b) ==
    /\ a.accessToken = b.accessToken
    /\ a.tokenExpiry = b.tokenExpiry
    /\ a.refreshToken = b.refreshToken

\* C1, as stated: for a message that has both a text/plain part and a
\* text/html part, getEmailTextContent returns the normalized plain text and
\* never the conversion of the HTML part.
C1_PlainAlwaysWins ==
    (body.from # "unset" /\ BothParts(message)) =>
        /\ body.from = "plain"
        /\ body.text = cleanEmailText(message.plain)

\* C1, amended: for a message that has a text/html part and a text/plain part
\* that is not empty, getEmailTextContent returns the normalized plain text and
\* never the conversion of the HTML part.
C1_NonEmptyPlainWins ==
    (body.from # "unset" /\ BothParts(message) /\ message.plain # <<>>) =>
        /\ body.from = "plain"
        /\ body.text = cleanEmailText(message.plain)
        /\ body.text # cleanEmailText(htmlToText(message.html))

C1_Witness ==
    /\ body.from = "plain"
    /\ BothParts(message)
    /\ body.text # <<>>

\* C2: when the token check of an OAuth record fails, the operation ends with
\* the auth-expired error and has attempted no IMAP and no SMTP connection.
C2_FailedCheckStopsOperation ==
    (post.taken /\ ~post.ok) =>
        /\ pc = "done"
        /\ result = "AuthExpired"
        /\ ~Made("imap")
        /\ ~Made("smtp")

C2_Witness ==
    /\ post.taken /\ ~post.ok
    /\ Made("remote") /\ Made("direct")
    /\ tool = "send"

\* C3: a tool invoked for an active OAuth account whose access token has
\* expired and which holds a refresh token refreshes the token and does not
\* answer that the user must authenticate again.
C3_ExpiredTokenIsRefreshed ==
    ( /\ pc = "done"
      /\ entry.taken
      /\ entry.account # NoAccount
      /\ IsOAuth(entry.account)
      /\ entry.account.isActive
      /\ entry.account.refreshToken # 0
      /\ entry.account.tokenExpiry # NoExpiry
      /\ entry.account.tokenExpiry < entry.now ) =>
        /\ result # "TokenExpired"
        /\ Made("remote")

C5_FreshRecordUntouched ==
    ( /\ pre.taken
      /\ \/ ~IsOAuth(pre.account)
         \/ /\ pre.account.tokenExpiry # NoExpiry
            /\ pre.account.tokenExpiry - pre.now > RefreshWindow ) =>
        /\ post.taken /\ post.ok
        /\ post.account = pre.account
        /\ post.file = pre.file
        /\ ~Made("remote")
        /\ ~Made("direct")

C5_Witness ==
    /\ pre.taken
    /\ IsOAuth(pre.account)
    /\ pre.account.tokenExpiry # NoExpiry
    /\ pre.account.tokenExpiry - pre.now > RefreshWindow
    /\ pre.now > StartTime

RemoteFailures == {"unreachable", "http_error", "bad_json", "not_success"}

\* C6: the direct OAuth-provider call is made only after the remote refresh
\* endpoint has been called and has failed, never after it has succeeded.
C6_DirectOnlyAfterRemoteFailure ==
    Made("direct") =>
        /\ calls[1] = "remote"
        /\ remoteOutcome \in RemoteFailures

\* C7: when checkAndRefreshToken returns true after a refresh, the store holds
\* the accessToken, tokenExpiry and refreshToken of the record in memory, and
\* no longer the access token the call was entered with.
C7_SuccessIsPersisted ==
    (post.taken /\ post.ok /\ Made("remote")) =>
        /\ Stored(post.file, post.account) # NoAccount
        /\ SameTokens(Stored(post.file, post.account), post.account)
        /\ Stored(post.file, post.account).accessToken # pre.account.accessToken

C7_Witness ==
    /\ post.taken /\ post.ok
    /\ Made("direct")
    /\ post.account.refreshToken = NewRefreshToken

----------------------------------------------------------------------------
(* The startup sweep *)

Emails(accounts) == [i \in 1..Len(accounts) |-> accounts[i].email]

SweepLogOf(email) == {j \in 1..Len(sweep.log) : sweep.log[j].email = email}

\* C8: the sweep never deletes a record: when it is done the store holds the
\* same addresses as before; every Gmail record whose tokenExpiry lay more
\* than 55 minutes in the past went through a refresh attempt; and a record
\* whose attempt failed is still in the store, with its active flag cleared.
C8_SweepKeepsEveryRecord ==
    sweep.pc = "done" =>
        LET b == Parse(sweep.before).accounts
            a == Parse(file).accounts
        IN  /\ WellFormed(file)
            /\ Emails(a) = Emails(b)
            /\ \A i \in 1..Len(b) :
                   expiredLongAgo(b[i], StartTime) =>
                       /\ SweepLogOf(b[i].email) # {}
                       /\ \A j \in SweepLogOf(b[i].email) :
                              ~sweep.log[j].refreshed => ~a[i].isActive

C8_Witness ==
    /\ sweep.pc = "done"
    /\ \E i \in 1..Len(Parse(sweep.before).accounts) :
          /\ Parse(sweep.before).accounts[i].isActive
          /\ expiredLongAgo(Parse(sweep.before).accounts[i], StartTime)
          /\ \E j \in SweepLogOf(Parse(sweep.before).accounts[i].email) :
                 /\ ~sweep.log[j].refreshed
                 /\ sweep.log[j].direct \in DirectOutcomes \ {"success"}
          /\ Parse(file).accounts[i].email = Parse(sweep.before).accounts[i].email
          /\ ~Parse(file).accounts[i].isActive

\* C9: in the sweep, a remote endpoint that is unreachable or answers with a
\* malformed payload is followed by the direct provider call (client
\* credentials being configured), so that a record is soft-disabled only
\* after both strategies have failed.
C9_SweepFallsBackToDirect ==
    \A j \in 1..Len(sweep.log) :
        (/\ oauthConfigured
         /\ ~sweep.log[j].refreshed
         /\ sweep.log[j].remote \in {"unreachable", "bad_json", "flat", "no_expiry"})
        => sweep.log[j].direct # "none"

----------------------------------------------------------------------------
(* The store file *)

\* C10: a reader beside writeStorage gets either the complete store of before
\* the write or the complete store of after it.
C10_ReaderSeesWholeStore ==
    io.rpc = "done" =>
        \/ io.seen = Parse(io.before)
        \/ io.data # <<>> /\ io.seen = Parse(io.data)

----------------------------------------------------------------------------
(* The store's records *)

StoredAccounts == readStorage(file, now).accounts

\* C11: whatever store operations have run, and however their reads and
\* writes fell between each other, the store holds at most one record per
\* address and at most one record is the default account.
C11_OneRecordPerAddress ==
    /\ \A i, j \in 1..Len(StoredAccounts) :
          StoredAccounts[i].email = StoredAccounts[j].email => i = j
    /\ Cardinality({i \in 1..Len(StoredAccounts) :
                       /\ readStorage(file, now).defaultAccount # NoDefault
                       /\ StoredAccounts[i].email = readStorage(file, now).defaultAccount}) <= 1

C11_Witness ==
    /\ Len(StoredAccounts) >= 2
    /\ readStorage(file, now).defaultAccount # NoDefault
    /\ \E p \in Procs :
          /\ st.ops[p].pc = "idle"
          /\ st.ops[p].kind \in {"addAccount", "addOAuthAccount"}
          /\ st.ops[p].hit
          /\ \E i \in 1..Len(StoredAccounts) : StoredAccounts[i].email = st.ops[p].email

----------------------------------------------------------------------------
(* Mail operations and their teardown *)

\* C12: once the body of getEmails, getEmailDetail or performEmailFetch has
\* finished - by a normal return, an early return or a thrown error - it
\* holds no mailbox lock.
C12_LockReleasedOnEveryExit ==
    mail.bpc = "done" => mail.held = 0

C12_Witness ==
    /\ mail.op \in {"getEmails", "getEmailDetail", "getEmailTextContent"}
    /\ mail.bpc = "done"
    /\ mail.acquired
    /\ mail.exit = "throw"
    /\ mail.held = 0

\* C13: once the fetch or the connection check has succeeded, what the caller
\* is handed is that success, however the teardown ends.
C13_TeardownNeverChangesOutcome ==
    (mail.produced /\ mail.ret # "pending") => mail.ret \in MailSuccess

\* C14: a graceful logout that fails or outlasts the teardown deadline is
\* followed by the forced close, safeLogout raises nothing, and a safeLogout
\* that has started completes.
C14_SafeLogoutForcesAndCompletes ==
    /\ [](/\ ~mail.raised
          /\ (mail.lpc = "done" /\ mail.graceful \in {"failed", "timeout"}) => mail.forced)
    /\ (mail.lpc = "racing") ~> (mail.lpc = "done")

C14_Witness ==
    /\ mail.lpc = "done"
    /\ mail.graceful = "timeout"
    /\ mail.forced
    /\ ~mail.raised

\* C15: every mail operation returns to its caller in the end, whatever the
\* remote server does.
C15_EveryOperationReturns ==
    <>(mail.ret # "pending")

----------------------------------------------------------------------------
(* The body of a message and what the caller is told *)

\* C16: a message that was found and has no text gives the caller of
\* email-detail an empty body, not the not-found answer.
C16_FoundWithoutTextIsNotNotFound ==
    (tool = "detail" /\ pc = "done" /\ message # NoMessage /\ body.from = "none")
        => result # "EmailNotFound"

----------------------------------------------------------------------------
(* The text normalizer *)

\* C19: normalizing a normalized text changes nothing.
C19_NormalizeIsIdempotent ==
    txt.pc = "twice" => txt.twice = txt.once

\* C20: a URL alone on a line goes away together with its line, and a URL
\* inside a sentence goes away leaving the words around it one space apart.
C20_UrlLineAndInlineUrlRemoved ==
    txt.pc \in {"once", "twice"} =>
        /\ txt.kind = "ownline" => txt.once = txt.pre \o <<NL>> \o txt.post
        /\ txt.kind = "embedded" => txt.once = txt.pre \o <<SP>> \o txt.post

\* the body resolved from bodyParts alone: what the two functions were handed
FromParts == mime.pc = "done" /\ mime.fn \in {"extractBodyFromParts", "processEmailBodyFromParts"}
PartsAbsent == ~mime.bodyParts.defined \/ mime.bodyParts.entries = <<>>
TextPartEmpty == mime.bodyParts.defined /\ mapGet(mime.bodyParts.entries, "TEXT") = Buffer(<<>>)

C18_ResolutionNeverRaises ==
    mime.pc = "done" =>
        /\ mime.result.kind # "raise"
        /\ mime.fn = "parseAttachmentsFromStructure" => mime.result.kind = "list"
        /\ mime.fn \notin {"parseAttachmentsFromStructure", "getEmails"} => mime.result.kind = "string"
        /\ (mime.input = "parts" /\ ~mime.bodyParts.defined) => mime.result = Value(<<>>)
        /\ (mime.input = "structure" /\ mime.structure = NoNode) => mime.result = List(<<>>)
        /\ (mime.input = "content" /\ mime.content = <<>>) => mime.result = Value(<<>>)

C18_Witness ==
    /\ mime.pc = "done"
    /\ mime.fn = "extractBodyFromParts"
    /\ mime.bodyParts.defined
    /\ ~mapGet(mime.bodyParts.entries, "TEXT").defined
    /\ \E k \in 1..Len(mime.bodyParts.entries) :
          /\ mime.bodyParts.entries[k].key # "HEADER"
          /\ ~mime.bodyParts.entries[k].content.defined
    /\ mime.result.kind = "string"


\* C21 (as stated): the message whose only body is the HTML part
\* <div>Special offer! <a href='http://ad.example/x'>Click here</a></div>
\* is answered with "Special offer! Click here (http://ad.example/x)", the
\* address of the link still present after normalization.
AdIsFetched == pc = "done" /\ message = AdMessage /\ body.from = "html"

RECURSIVE attachmentNodes(_)
RECURSIVE attachmentNodesOfEach(_)

attachmentNodesOfEach(nodes) ==
    IF nodes = <<>> THEN <<>>
    ELSE attachmentNodes(Head(nodes)) \o attachmentNodesOfEach(Tail(nodes))

attachmentNodes(node) ==
    (IF node.t = "object" /\ node.disposition = "attachment" THEN <<node>> ELSE <<>>)
        \o attachmentNodesOfEach(node.items) \o attachmentNodesOfEach(node.childNodes)

recordOf(node) ==
    [filename |-> IF node.dispositionParameters.defined THEN node.dispositionParameters.value
                  ELSE IF node.parameters.defined THEN node.parameters.value
                  ELSE "unknown",
     contentType |-> IF node.type # "" /\ node.subtype # "" THEN <<node.type, node.subtype>>
                     ELSE <<"application", "octet-stream">>,
     size |-> node.size]

AttachmentsParsed == mime.pc = "done" /\ mime.fn = "parseAttachmentsFromStructure"

C22_OneRecordPerAttachmentNode ==
    AttachmentsParsed =>
        LET nodes == attachmentNodes(mime.structure) IN
        /\ mime.result.kind = "list"
        /\ mime.result.list = [k \in 1..Len(nodes) |-> recordOf(nodes[k])]

\* C23: an email-send request with neither text nor html ends with the
\* validation error at once, with no network call made on its behalf: no
\* token refresh, no SMTP connection, no message sent.
SendWithoutContent == tool = "send" /\ ~args.content

C23_NoContentIsRejectedBeforeAnyCall ==
    SendWithoutContent => pc = "done" /\ result = "ValidationError" /\ calls = <<>>

C23_Witness == SendWithoutContent /\ pc = "done"

\* C24: a failure to open the session of an email-query is answered as
\* AuthFailed, AuthExpired or ConnectionFailed, and the server's rejection
\* of the credentials of an OAuth account is answered as AuthExpired.
OpenFailureKinds == {"AuthFailed", "AuthExpired", "ConnectionFailed"}

\* the wording by which connectImap recognises a rejected login
Rejected(msg) == "Invalid credentials" \in msg \/ "authentication" \in msg

C24_OAuthRejectionIsAuthExpired ==
    [][\A o \in ImapErrors :
          (tool = "query" /\ ConnectImap(o)) =>
              /\ result' \in OpenFailureKinds
              /\ (IsOAuth(account) /\ Rejected(o)) => result' = "AuthExpired"]_vars

\* C25: a failed send is answered by its kind: the re-authentication hint
\* when the provider's error has OAuth or token wording, the
\* check-your-password hint when it has invalid-login wording, and a
\* generic failure otherwise.
sendFailureKind(msg) ==
    IF "OAuth" \in msg \/ "OAuth token" \in msg \/ "token" \in msg THEN {"AuthExpired"}
    ELSE IF "Invalid login" \in msg THEN {"AuthFailed"}
    ELSE {"ConnectionFailed", "Error"}

C25_SendFailureAnsweredByKind ==
    [][\A o \in SmtpErrors : SendMail(o) => result' \in sendFailureKind(o)]_vars

\* C26: a record whose isActive is false is never the one an email-query,
\* email-detail or email-send opens a connection or refreshes a token for,
\* whether the request names it or it is the default account; and a request
\* that names an account is turned away as not found or not active exactly
\* when the store holds no active record with that address or display name.
ActiveMatch(f, key) ==
    \E k \in 1..Len(f) :
        /\ f[k].t = "acct"
        /\ f[k].v.email = key \/ f[k].v.displayName = key
        /\ f[k].v.isActive

C26_InactiveAccountNeverUsed ==
    /\ calls # <<>> => entry.account.isActive
    /\ (entry.taken /\ args.from # NoArg) =>
          (result = "NotFoundOrInactive" <=> ~ActiveMatch(entry.file, args.from))

\* C27: the list getEmails returns holds the fetched messages ordered by
\* date, the newest first, whatever the order the server sent them in.
EmailsListed == mime.pc = "done" /\ mime.fn = "getEmails"

C27_ListIsNewestFirst ==
    EmailsListed =>
        LET list == mime.result.list IN
        /\ Len(list) = Len(mime.fetched)
        /\ \A f \in 1..Len(mime.fetched) : \E k \in 1..Len(list) : list[k].uid = mime.fetched[f].uid
        /\ \A j, k \in 1..Len(list) : j < k => list[j].date >= list[k].date

C27_Witness ==
    /\ EmailsListed
    /\ \E j, k \in 1..Len(mime.fetched) :
          /\ j < k
          /\ mime.fetched[j].date # NoDate
          /\ mime.fetched[j].date < mime.fetched[k].date

\* C28: a body resolved from bodyParts is the TEXT part when there is one,
\* else a part other than HEADER, never the HEADER part; and the chosen
\* content is tested for HTML and converted to text when it is HTML, by
\* extractBodyFromParts as well as by processEmailBodyFromParts.
C28_ChosenPartIsConverted ==
    (FromParts /\ mime.bodyParts.defined) =>
        LET entries == mime.bodyParts.entries
            text == mapGet(entries, "TEXT")
            others == {k \in 1..Len(entries) :
                          entries[k].key \notin {"HEADER", "TEXT"} /\ entries[k].content.defined}
        IN  /\ mime.result.kind = "string"
            /\ IF text.defined THEN mime.result.text = renderContent(text.text)
               ELSE IF others = {} THEN mime.result.text = <<>>
               ELSE \E k \in others : mime.result.text = renderContent(entries[k].content.text)

\* C29: decodeHtmlEntities turns every numeric entity, decimal or
\* hexadecimal, into the character that has exactly that code point, also
\* above 0xFFFF, and leaves an unknown or malformed entity as it is; it
\* never raises.
codePoint(digits, radix) ==
    LET v[k \in 0..Len(digits)] ==
            IF k = 0 THEN 0
            ELSE v[k - 1] * radix + IndexIn(Fold(digits[k]), HexDigits) - 1
    IN  v[Len(digits)]

charAt(code) == IF code < CodeUnits THEN fromCharCode(code) ELSE "u" \o ToString(code)

ExactDecimalChar(s, i) == <<charAt(codePoint(SubSeq(s, i + 2, MatchDecimalEntity(s, i) - 1), 10))>>
ExactHexChar(s, i) == <<charAt(codePoint(SubSeq(s, i + 3, MatchHexEntity(s, i) - 1), 16))>>

EntitiesDecoded == mime.pc = "done" /\ mime.fn = "decodeHtmlEntities"

C29_NumericEntityIsItsCodePoint ==
    EntitiesDecoded =>
        /\ mime.result.kind = "string"
        /\ mime.result.text =
              ReplaceAllWith(ReplaceAllWith(NamedEntityPasses(mime.content),
                                            MatchDecimalEntity, ExactDecimalChar),
                             MatchHexEntity, ExactHexChar)

\* C30: a normalized text holds no three newlines in a row, no tab and no
\* two spaces in a row; none of its lines begins or ends with a space or a
\* tab; and it neither begins nor ends with a blank line.
IsTidy(out) ==
    /\ \A i \in 1..Len(out) : out[i] # TAB
    /\ \A i \in 1..(Len(out) - 1) : ~(out[i] = SP /\ out[i + 1] = SP)
    /\ \A i \in 1..(Len(out) - 2) : ~(out[i] = NL /\ out[i + 1] = NL /\ out[i + 2] = NL)
    /\ \A i \in 1..(Len(out) - 1) : out[i] = NL => out[i + 1] \notin {SP, TAB}
    /\ \A i \in 2..Len(out) : out[i] = NL => out[i - 1] \notin {SP, TAB}
    /\ out # <<>> => out[1] \notin {SP, TAB, NL} /\ out[Len(out)] \notin {SP, TAB, NL}

C30_NormalizedTextIsTidy ==
    /\ txt.pc \in {"once", "twice"} => IsTidy(txt.once)
    /\ txt.pc = "twice" => IsTidy(txt.twice)

C30_Witness ==
    /\ txt.pc = "once"
    /\ txt.kind = "mix"
    /\ ~IsTidy(txt.input)
    /\ \E i \in 2..(Len(txt.input) - 1) : txt.input[i] \in {TAB, SP, NL} /\ txt.input[i + 1] \in {TAB, SP, NL}
    /\ Len(txt.once) >= 2

\* C31: an operation that adds, updates or removes the record of one address
\* leaves the records of the other addresses as the store holds them when it
\* writes: what another operation has written for another record meanwhile
\* is still there afterwards.
OneRecordKinds == {"addAccount", "addOAuthAccount", "updateAccount", "removeAccount"}

C31_OtherRecordsSurviveAWrite ==
    [][\A p \in Procs, ok \in {{}, {1}} :
          (st.ops[p].kind \in OneRecordKinds /\ OpWrite(p, ok)) =>
              \A email \in {GmailAddr, QQAddr, Gmail2Addr} \ {st.ops[p].email} :
                  getAccount(readStorage(file', 0), email) = getAccount(readStorage(file, 0), email)]_vars

\* C32: a read of the store changes neither the stored records nor the
\* default designation, whatever the file holds when it is read, also while
\* the file is being written: once the write and the read beside it are
\* over, the store holds the records it held before and the default
\* designation the write gave it.
FileSettled == io.wpc = "done" /\ io.rpc = "done"

C32_ReadLeavesStoreAlone ==
    FileSettled =>
        LET start == readStorage(io.before, 0)
            end == readStorage(file, 0)
        IN  /\ end.accounts = start.accounts
            /\ end.defaultAccount = IF io.data = <<>> THEN start.defaultAccount
                                    ELSE Parse(io.data).defaultAccount

\* C33: within one token check each refresh strategy is tried at most once:
\* the refresh endpoint gets at most one request and the token endpoint of
\* the OAuth provider gets at most one request.
Times(c) == Cardinality({i \in 1..Len(calls) : calls[i] = c})

C33_EachStrategyAtMostOnce ==
    Times("remote") <= 1 /\ Times("direct") <= 1

\* C34: a mail operation that has opened an IMAP session does not give its
\* answer and leave the session as it is: by the time it has returned, a
\* logout or a forced close of that session has been started.
MailReturned == mail.bpc = "done" /\ mail.ret # "pending"

TeardownStarted ==
    \/ mail.lpc # "off"
    \/ mail.op = "validateConnection" /\ mail.produced

C34_OpenedSessionIsTornDown ==
    (MailReturned /\ mail.connected) => TeardownStarted

\* C35: getAccount(k) gives the record whose address is k whenever the
\* store holds one, also when the display name of another record is k; and
\* getDefaultAccount gives the record whose address is the default one.
C35_AddressWinsOverDisplayName ==
    \A p \in Procs :
        LET op == st.ops[p] IN
        (/\ op.kind \in {"getAccount", "getDefaultAccount"}
         /\ \E i \in 1..Len(op.storage.accounts) : op.storage.accounts[i].email = op.email)
            => op.acc.email = op.email

\* the store as it stands in the file
stored == readStorage(file, now)

\* the default of data, when one is set, is the address of a record of data
DefaultIsStored(data) ==
    data.defaultAccount # NoDefault => findIndex(data.accounts, data.defaultAccount) # 0

\* what the operation of p is about to write, the sweep refreshing every token
Pending(p) == storeResult(st.ops[p], {1, 2}, now)

(* C36: the default address, when one is set, is the address of a record   *)
(* in the store, whatever operations ran and however they interleaved.  An *)
(* addition to a store without records makes its address the default, an   *)
(* addition to a store with records leaves the default alone, and removing *)
(* the default record moves the default to the first record left, or       *)
(* clears it when none is left.                                            *)
C36_DefaultNamesAStoredRecord ==
    /\ DefaultIsStored(stored)
    /\ \A p \in Procs :
          LET op == st.ops[p]
          IN  /\ op.pc = "read" /\ op.kind \in {"addAccount", "addOAuthAccount"} =>
                    Pending(p).defaultAccount =
                        IF op.storage.accounts = <<>> THEN op.email ELSE op.storage.defaultAccount
              /\ op.pc = "read" /\ op.kind = "removeAccount" /\ op.hit =>
                    /\ DefaultIsStored(Pending(p))
                    /\ op.storage.defaultAccount # op.email =>
                          Pending(p).defaultAccount = op.storage.defaultAccount
                    /\ op.storage.defaultAccount = op.email =>
                          Pending(p).defaultAccount =
                              IF Len(Pending(p).accounts) = 0 THEN NoDefault
                              ELSE Pending(p).accounts[1].email

\* the request to /api/auth/refresh-token has been answered
Answered == login.req.pc = "done"

\* the answer carries a token value
CarriesToken == login.req.res.access_token # 0 \/ login.req.res.refresh_token # 0

(* C37: an answered request to /api/auth/refresh-token carries token       *)
(* values, or has changed a stored record, only when the refresh token it  *)
(* presented is the stored refresh token of the Gmail record its email     *)
(* names; then no record but that one has changed.  A request with another *)
(* token, for an unknown account or for an account that is not a Gmail     *)
(* account is answered without a token and leaves the store as it was.     *)
C37_TokensOnlyForTheStoredRefreshToken ==
    Answered =>
        LET was == readStorage(login.req.before, now)
            acc == getAccount(was, login.req.email)
            matches == /\ login.req.refresh_token # 0
                       /\ acc # NoAccount
                       /\ acc.provider = "Gmail"
                       /\ acc.refreshToken = login.req.refresh_token
        IN  /\ CarriesToken => matches
            /\ stored.defaultAccount = was.defaultAccount
            /\ Len(stored.accounts) = Len(was.accounts)
            /\ \A i \in 1..Len(was.accounts) :
                  stored.accounts[i] # was.accounts[i] =>
                      matches /\ i = findIndex(was.accounts, acc.email)

\* a request that presented the stored refresh token of g@gmail.com has been
\* answered with fresh tokens, and the record holds them
C37_Witness ==
    /\ Answered
    /\ login.req.res.status = 200
    /\ login.req.res.access_token = DirectAccessToken
    /\ login.req.res.refresh_token = NewRefreshToken
    /\ getAccount(stored, GmailAddr).accessToken = DirectAccessToken
    /\ getAccount(stored, GmailAddr).refreshToken = NewRefreshToken
    /\ stored # readStorage(login.req.before, now)

\* no call of the email-login tool is between its await and its return
Quiet == \A p \in Procs : login.calls[p].pc = "idle"

\* every call of the tool so far began when the calls before it had returned
OneAtATime == ~login.overlapped

\* EmailLoginTool.loginServer holds a server that was started and not stopped
HoldsAStartedServer ==
    login.loginServer # 0 /\ login.servers[login.loginServer].state = "listening"

\* what the tool keeps and the servers it has made
Kept(l) == <<l.isServerRunning, l.loginServer, l.servers>>

NamedAt(s, i) ==
    LET hits == {k \in 1..Len(entities) : MatchEntity(s, i, entities[k][1]) # 0}
    IN  IF hits = {} THEN 0 ELSE CHOOSE k \in hits : \A j \in hits : k <= j

\* an entity of any of the three kinds at i: the index of its last character
MatchAnyEntity(s, i) ==
    IF NamedAt(s, i) # 0 THEN MatchEntity(s, i, entities[NamedAt(s, i)][1])
    ELSE IF MatchDecimalEntity(s, i) # 0 THEN MatchDecimalEntity(s, i)
    ELSE MatchHexEntity(s, i)

AnyEntityChar(s, i) ==
    IF NamedAt(s, i) # 0 THEN entities[NamedAt(s, i)][2]
    ELSE IF MatchDecimalEntity(s, i) # 0 THEN DecimalEntityChar(s, i)
    ELSE HexEntityChar(s, i)

\* every entity of the text replaced by its character, in one pass over the
\* text: what a replacement produces is not read again
decodedOnce(text) == ReplaceAllWith(text, MatchAnyEntity, AnyEntityChar)

(* C38: decodeHtmlEntities decodes each entity of its text exactly once:   *)
(* the characters a decoded entity leaves are not taken for the beginning  *)
(* of another entity, so "&amp;lt;" becomes "&lt;" and "&amp;#60;" becomes *)
(* "&#60;", not "<".                                                       *)
C38_EachEntityDecodedOnce ==
    EntitiesDecoded => mime.result.text = decodedOnce(mime.content)

========================================================================
